---- MODULE Spec2Model ----
(***************************************************************************)
(* The FSD architecture validator of the frontend-dev-toolkit plugin       *)
(* (the /fsd-validate command): a source tree is scanned into a module     *)
(* graph, every import edge is classified against the layer dependency     *)
(* rules, slice-level cycles are detected, and an ordered report with a    *)
(* status is built.  The React Query templates of the plugin follow: the   *)
(* query key factory, the optimistic update and delete mutation hooks, the *)
(* API client with its request hooks, and the rate limited request queue.  *)
(***************************************************************************)
EXTENDS Integers, Sequences, FiniteSets, TLC

\* the validator
VARIABLES tree, unreadable, strict, policy, exceptions, pc, error, run,
          parsed, graph, findings, report, previous

\* the query cache of the query client and the mutations of the hooks
VARIABLES queries, mutations

\* the API client: the stored token, the request under way, the most
\* recent change of the token, and the page the window shows
VARIABLES storage, call, lastAuth, location

\* the rate limited client: its queue and flag, the active calls of
\* processQueue, the requests in the order they were enqueued and started,
\* and the outcome of each
VARIABLES queue, isProcessing, loops, enqueued, started, outcome

validatorVars ==
    <<tree, unreadable, strict, policy, exceptions, pc, error, run, parsed,
      graph, findings, report, previous>>

cacheVars == <<queries, mutations>>

clientVars == <<storage, call, lastAuth, location>>

limiterVars == <<queue, isProcessing, loops, enqueued, started, outcome>>

templateVars == <<cacheVars, clientVars, limiterVars>>

vars == <<validatorVars, templateVars>>

None == "none"

(***************************************************************************)
(* Bounds of the model.                                                    *)
(***************************************************************************)
\* import statements of a tree drawn from the whole project (RuleFiles)
MaxRuleImports == 1
\* import statements of a tree drawn from the slices of CycleFiles
MaxCycleImports == 3
\* import statements of a tree validated under a configured policy
MaxConfigImports == 1
\* import statements of a tree scanned by concurrent workers
MaxParallelImports == 4
\* consecutive runs of the validator over one tree
MaxRuns == 2

(***************************************************************************)
(* Names are character strings; comparisons are lexicographic on their     *)
(* character codes.                                                        *)
(***************************************************************************)
Chars(s) ==
    CASE s = "app" -> <<97, 112, 112>>
      [] s = "pages" -> <<112, 97, 103, 101, 115>>
      [] s = "widgets" -> <<119, 105, 100, 103, 101, 116, 115>>
      [] s = "features" -> <<102, 101, 97, 116, 117, 114, 101, 115>>
      [] s = "entities" -> <<101, 110, 116, 105, 116, 105, 101, 115>>
      [] s = "shared" -> <<115, 104, 97, 114, 101, 100>>
      [] s = "header" -> <<104, 101, 97, 100, 101, 114>>
      [] s = "edit-user" -> <<101, 100, 105, 116, 45, 117, 115, 101, 114>>
      [] s = "delete-user" -> <<100, 101, 108, 101, 116, 101, 45, 117, 115, 101, 114>>
      [] s = "auth" -> <<97, 117, 116, 104>>
      [] s = "user" -> <<117, 115, 101, 114>>
      [] s = "api" -> <<97, 112, 105>>
      [] s = "lib" -> <<108, 105, 98>>
      [] s = "model" -> <<109, 111, 100, 101, 108>>
      [] s = "Home.tsx" -> <<72, 111, 109, 101, 46, 116, 115, 120>>
      [] s = "App.tsx" -> <<65, 112, 112, 46, 116, 115, 120>>
      [] s = "index.ts" -> <<105, 110, 100, 101, 120, 46, 116, 115>>
      [] s = "useUpdateUser.ts" -> <<117, 115, 101, 85, 112, 100, 97, 116, 101, 85, 115, 101, 114, 46, 116, 115>>
      [] s = "validation.ts" -> <<118, 97, 108, 105, 100, 97, 116, 105, 111, 110, 46, 116, 115>>
      [] s = "types.ts" -> <<116, 121, 112, 101, 115, 46, 116, 115>>
      [] s = "user.api.ts" -> <<117, 115, 101, 114, 46, 97, 112, 105, 46, 116, 115>>
      [] s = "vite.config.ts" -> <<118, 105, 116, 101, 46, 99, 111, 110, 102, 105, 103, 46, 116, 115>>
      [] s = "product" -> <<112, 114, 111, 100, 117, 99, 116>>
      [] s = "legacy" -> <<108, 101, 103, 97, 99, 121>>

\* the path segments joined with "/" (code 47)
RECURSIVE PathChars(_)
PathChars(p) ==
    IF p = <<>> THEN <<>>
    ELSE IF Len(p) = 1 THEN Chars(p[1])
    ELSE Chars(p[1]) \o <<47>> \o PathChars(Tail(p))

RECURSIVE LexLess(_, _)
LexLess(a, b) ==
    IF b = <<>> THEN FALSE
    ELSE IF a = <<>> THEN TRUE
    ELSE IF Head(a) < Head(b) THEN TRUE
    ELSE IF Head(a) > Head(b) THEN FALSE
    ELSE LexLess(Tail(a), Tail(b))

Range(s) == {s[i] : i \in DOMAIN s}

(***************************************************************************)
(* Layer Policy.                                                           *)
(***************************************************************************)
Layers == {"app", "pages", "widgets", "features", "entities", "shared"}

\* the level of a layer in the order shared < entities < ... < app
Level(layer) ==
    CASE layer = "app" -> 6
      [] layer = "pages" -> 5
      [] layer = "widgets" -> 4
      [] layer = "features" -> 3
      [] layer = "entities" -> 2
      [] layer = "shared" -> 1

\* a row with one upward entry, as a slip in the table would leave it
LAYER_DEPENDENCIES_Upward ==
    [app |-> <<"pages", "widgets", "features", "entities", "shared">>,
     pages |-> <<"widgets", "features", "entities", "shared">>,
     widgets |-> <<"features", "entities", "shared">>,
     features |-> <<"entities", "shared">>,
     entities |-> <<"features", "shared">>,
     shared |-> <<>>]

LAYER_DEPENDENCIES ==
    [app |-> <<"pages", "widgets", "features", "entities", "shared">>,
     pages |-> <<"widgets", "features", "entities", "shared">>,
     widgets |-> <<"features", "entities", "shared">>,
     features |-> <<"entities", "shared">>,
     entities |-> <<"shared">>,
     shared |-> <<>>]

\* the table of the run: the configured one, the default one if none is
\* configured
allowedLayers(layer) == Range(policy[layer])

isAllowed(fromLayer, toLayer) == toLayer \in allowedLayers(fromLayer)

\* configured policies: one that is stricter than the default table, and
\* malformed ones: a layer allowed to depend on itself, on a layer above it,
\* on a layer that is not recognized, and a table with an unrecognized layer
StricterPolicy ==
    [LAYER_DEPENDENCIES EXCEPT !.pages = <<"widgets", "features", "shared">>]

SelfPolicy ==
    [LAYER_DEPENDENCIES EXCEPT !.features = <<"features", "entities", "shared">>]

UpwardPolicy == [LAYER_DEPENDENCIES EXCEPT !.shared = <<"entities">>]

UnknownLayerPolicy ==
    [LAYER_DEPENDENCIES EXCEPT !.features = <<"processes", "entities", "shared">>]

UnknownKeyPolicy == ("processes" :> <<"shared">>) @@ LAYER_DEPENDENCIES

PolicyChoices ==
    {LAYER_DEPENDENCIES, StricterPolicy, SelfPolicy, UpwardPolicy,
     UnknownLayerPolicy, UnknownKeyPolicy}

\* per-slice exceptions of the configuration: none, or
\* "allowExceptions": {"features/legacy": {"canImport": ["widgets"]}}
NoExceptions == <<>>

LegacyException == (<<"features", "legacy">> :> <<"widgets">>)

ExceptionChoices == {NoExceptions, LegacyException}

\* the slice of the importing module is granted an import of the layer
canImport(from, toLayer) ==
    /\ from.slice # None
    /\ <<from.layer, from.slice>> \in DOMAIN exceptions
    /\ toLayer \in Range(exceptions[<<from.layer, from.slice>>])

\* a loader that accepts every table
WellFormed_Unchecked(p) == TRUE

\* the table names the recognized layers, and every layer may depend only
\* on recognized layers strictly below it
WellFormed(p) ==
    /\ DOMAIN p = Layers
    /\ \A layer \in Layers :
           \A below \in Range(p[layer]) :
               below \in Layers /\ Level(below) < Level(layer)

(***************************************************************************)
(* Module Graph Builder: a file path resolves to (layer, slice, segment).  *)
(***************************************************************************)
LayerOf(path) == IF path[1] \in Layers THEN path[1] ELSE None

\* the second path segment, when it is a directory of a scoped layer
SliceOf(path) ==
    IF LayerOf(path) # None /\ Len(path) >= 3 THEN path[2] ELSE None

SegmentOf(path) ==
    IF SliceOf(path) # None /\ Len(path) >= 4 THEN path[3] ELSE "unknown"

\* the slice's public entry: <layer>/<slice>/index.ts
IsBarrel(path) ==
    SliceOf(path) # None /\ Len(path) = 3 /\ path[3] = "index.ts"

Module(path) ==
    [path |-> path, layer |-> LayerOf(path), slice |-> SliceOf(path),
     segment |-> SegmentOf(path)]

\* the identifier of a module's slice, "<layer>/<slice>"
SliceId(m) == <<m.layer, m.slice>>

(***************************************************************************)
(* Source trees.  A tree is read as the sequence of its import statements  *)
(* in walk order: the files in directory order, each file's imports in     *)
(* text order, every specifier already resolved to the file it names.      *)
(***************************************************************************)
RuleFiles ==
    {<<"app", "App.tsx">>,
     <<"pages", "Home.tsx">>,
     <<"widgets", "header", "index.ts">>,
     <<"features", "edit-user", "index.ts">>,
     <<"features", "edit-user", "api", "useUpdateUser.ts">>,
     <<"features", "delete-user", "index.ts">>,
     <<"features", "auth", "lib", "validation.ts">>,
     <<"entities", "user", "index.ts">>,
     <<"entities", "user", "model", "types.ts">>,
     <<"entities", "user", "api", "user.api.ts">>,
     <<"shared", "api", "index.ts">>,
     <<"shared", "lib", "validation.ts">>,
     <<"vite.config.ts">>}

CycleFiles ==
    {<<"features", "edit-user", "index.ts">>,
     <<"features", "delete-user", "index.ts">>,
     <<"features", "auth", "lib", "validation.ts">>,
     <<"entities", "user", "index.ts">>}

Imports(files) ==
    {[file |-> f, target |-> t] : f \in files, t \in files} \
        {[file |-> f, target |-> f] : f \in files}

\* the files of the trees that are validated under a configured policy
ConfigFiles ==
    {<<"pages", "Home.tsx">>,
     <<"features", "edit-user", "index.ts">>,
     <<"entities", "user", "index.ts">>,
     <<"entities", "product", "index.ts">>,
     <<"shared", "api", "index.ts">>}

\* specifiers that name a package: import ... from 'react', from 'entities'
PackageSpecifiers == {<<"react">>, <<"entities">>}

\* specifiers that are computed: import(`@/features/${name}`)
DynamicSpecifiers == {<<"features", "${name}">>}

\* how a specifier resolves: to a module of the project, to nothing in the
\* project (a package), or not statically at all
Resolution(target) ==
    IF target \in DynamicSpecifiers THEN "unresolvable"
    ELSE IF target \in PackageSpecifiers THEN "external"
    ELSE "module"

ConfigImports ==
    Imports(ConfigFiles) \cup
        {[file |-> f, target |-> t] :
            f \in ConfigFiles, t \in PackageSpecifiers \cup DynamicSpecifiers}

\* the sequences of at most n distinct elements of S
RECURSIVE DistinctSeqs(_, _)
DistinctSeqs(S, n) ==
    IF n = 0 THEN {<<>>}
    ELSE LET prev == DistinctSeqs(S, n - 1)
             full == {s \in prev : Len(s) = n - 1}
         IN  prev \cup {t \in {Append(s, x) : s \in full, x \in S} :
                            t[Len(t)] \notin Range(SubSeq(t, 1, Len(t) - 1))}

\* a file is read once: its import statements are contiguous in the walk
WalkOrdered(s) ==
    \A i, j, k \in DOMAIN s :
        (i < j /\ j < k /\ s[i].file = s[k].file) => s[j].file = s[i].file

\* trees over the files of the whole project
RuleTrees ==
    {s \in DistinctSeqs(Imports(RuleFiles), MaxRuleImports) : WalkOrdered(s)}

\* trees over the files of a few slices, with more imports
CycleTrees ==
    {s \in DistinctSeqs(Imports(CycleFiles), MaxCycleImports) : WalkOrdered(s)}

\* the files of the trees that are validated with a per-slice exception
ExceptionFiles ==
    {<<"features", "legacy", "index.ts">>,
     <<"features", "edit-user", "index.ts">>,
     <<"widgets", "header", "index.ts">>}

ExceptionTrees ==
    {s \in DistinctSeqs(Imports(ExceptionFiles), MaxConfigImports) :
        WalkOrdered(s)}

\* trees over a few files, with imports of packages and computed imports
ConfigTrees ==
    {s \in DistinctSeqs(ConfigImports, MaxConfigImports) : WalkOrdered(s)}

\* the line of the i-th statement of the walk within its own file
LineOf(s, i) == Cardinality({j \in 1..i : s[j].file = s[i].file})

EmptyGraph == [modules |-> <<>>, edges |-> <<>>]

NoReport == [findings |-> <<>>, summary |-> None, status |-> None]

\* the files of the tree that cannot be read or parsed: none, or one of
\* the files of CycleFiles (which the tree holds whether or not a readable
\* file imports it)
UnreadableChoices == {{}, {<<"features", "auth", "lib", "validation.ts">>}}

\* the outcome of a run: its report, or the error that ended it
Outcome == [report |-> report, error |-> error]

NoOutcome == [report |-> NoReport, error |-> None]

\* no template is in use while the validator runs
CacheIdle ==
    /\ queries = <<>>
    /\ mutations = <<>>

\* the item 'auth_token' of localStorage: absent, or a string
NoItem == [has |-> FALSE, value |-> ""]

\* an Authorization header: absent, or a scheme with credentials
NoHeader == [scheme |-> "", credentials |-> ""]

\* the body of a response: not JSON, or JSON with a message property that
\* may be missing or empty
NotJson == [json |-> FALSE, message |-> ""]

Response(status, statusText, body) ==
    [ok |-> status \in 200 .. 299, status |-> status,
     statusText |-> statusText, body |-> body]

NoResponse == Response(0, "", NotJson)

NoError == [name |-> "", message |-> "", status |-> 0]

\* no request is under way
NoCall ==
    [pc |-> "idle", template |-> "", method |-> "",
     authorization |-> NoHeader, response |-> NoResponse, error |-> NoError,
     cleared |-> FALSE]

\* the most recent of setAuthToken, clearAuthToken and the handling of a
\* 401 response
NoAuthEvent == [event |-> "none", token |-> ""]
ClientIdle ==
    /\ storage = NoItem
    /\ call = NoCall
    /\ lastAuth = NoAuthEvent
    /\ location = "/"

LimiterIdle ==
    /\ queue = <<>>
    /\ isProcessing = FALSE
    /\ loops = {}
    /\ enqueued = <<>>
    /\ started = <<>>
    /\ outcome = <<>>

TemplatesIdle == CacheIdle /\ ClientIdle /\ LimiterIdle

\* the validator is not running while the templates are exercised
ValidatorIdle ==
    /\ tree = <<>>
    /\ unreadable = {}
    /\ strict = FALSE
    /\ policy = LAYER_DEPENDENCIES
    /\ exceptions = NoExceptions
    /\ pc = "start"
    /\ error = None
    /\ run = 1
    /\ parsed = <<>>
    /\ graph = EmptyGraph
    /\ findings = <<>>
    /\ report = NoReport
    /\ previous = NoOutcome

Init ==
    /\ \/ /\ tree \in RuleTrees
          /\ unreadable = {}
          /\ policy = LAYER_DEPENDENCIES
          /\ exceptions = NoExceptions
       \/ /\ tree \in CycleTrees
          /\ unreadable \in UnreadableChoices
          /\ policy = LAYER_DEPENDENCIES
          /\ exceptions = NoExceptions
       \/ /\ tree \in ConfigTrees
          /\ unreadable = {}
          /\ policy \in PolicyChoices
          /\ exceptions = NoExceptions
       \/ /\ tree \in ExceptionTrees
          /\ unreadable = {}
          /\ policy = LAYER_DEPENDENCIES
          /\ exceptions \in ExceptionChoices
    /\ strict \in BOOLEAN
    /\ pc = "start"
    /\ error = None
    /\ run = 1
    /\ parsed = <<>>
    /\ graph = EmptyGraph
    /\ findings = <<>>
    /\ report = NoReport
    /\ previous = NoOutcome
    /\ TemplatesIdle

\* the policy is loaded once, before anything is scanned; a malformed
\* policy ends the run
LoadPolicy ==
    /\ pc = "start"
    /\ IF WellFormed(policy)
       THEN pc' = "loaded" /\ error' = None
       ELSE pc' = "aborted" /\ error' = "ConfigurationError"
    /\ UNCHANGED templateVars
    /\ UNCHANGED <<tree, unreadable, strict, policy, exceptions, parsed, run, graph, findings,
                   report, previous>>

\* the modules of a walk in insertion order: a file is entered when it is
\* read or first resolved as an import target
RECURSIVE ModulesOf(_, _)
ModulesOf(s, acc) ==
    IF s = <<>> THEN acc
    ELSE LET a1 == IF Head(s).file \in Range(acc) THEN acc
                   ELSE Append(acc, Head(s).file)
             a2 == IF Head(s).target \in Range(a1) THEN a1
                   ELSE Append(a1, Head(s).target)
         IN  ModulesOf(Tail(s), a2)

\* the import statements of the walk, each with its line in its file
Statements(s) ==
    [i \in DOMAIN s |->
        [file |-> s[i].file, target |-> s[i].target, line |-> LineOf(s, i)]]

\* a builder that keeps what it could make of an unreadable file
BuildGraph_KeepBroken(s, bad) ==
    LET Ok(x) == Resolution(x.target) = "module"
        kept == SelectSeq(Statements(s), Ok)
        paths == ModulesOf(kept, <<>>)
    IN  [modules |-> [i \in DOMAIN paths |-> Module(paths[i])],
         edges |-> [i \in DOMAIN kept |->
                       [from |-> Module(kept[i].file),
                        to |-> Module(kept[i].target),
                        line |-> kept[i].line,
                        barrel |-> IsBarrel(kept[i].target)]]]

\* an unreadable file is excluded from the graph: its own imports are not
\* seen, and an import of it resolves to no module; an import that names
\* a package or is computed is left out of the graph
BuildGraph(s, bad) ==
    LET Ok(x) == /\ x.file \notin bad
                 /\ x.target \notin bad
                 /\ Resolution(x.target) = "module"
        kept == SelectSeq(Statements(s), Ok)
        paths == ModulesOf(kept, <<>>)
    IN  [modules |-> [i \in DOMAIN paths |-> Module(paths[i])],
         edges |-> [i \in DOMAIN kept |->
                       [from |-> Module(kept[i].file),
                        to |-> Module(kept[i].target),
                        line |-> kept[i].line,
                        barrel |-> IsBarrel(kept[i].target)]]]

ScanErrorFinding(path) ==
    [kind |-> "SCAN_ERROR", file |-> path, line |-> 0, target |-> <<>>,
     cycle |-> <<>>]

\* one finding for each unreadable file, in path order
RECURSIVE ScanErrors(_)
ScanErrors(bad) ==
    IF bad = {} THEN <<>>
    ELSE LET first == CHOOSE p \in bad :
                          \A q \in bad \ {p} :
                              LexLess(PathChars(p), PathChars(q))
         IN  <<ScanErrorFinding(first)>> \o ScanErrors(bad \ {first})

\* a scan that takes a tree without files for one it could not read
Scan_EmptyIsError ==
    /\ pc = "loaded"
    /\ graph' = BuildGraph(tree, unreadable)
    /\ findings' = IF tree = <<>> /\ unreadable = {}
                   THEN <<ScanErrorFinding(<<>>)>>
                   ELSE ScanErrors(unreadable)
    /\ pc' = "scanned"
    /\ UNCHANGED templateVars
    /\ UNCHANGED <<tree, unreadable, strict, policy, exceptions, parsed, error, run, report,
                   previous>>

\* a scan that adds to the findings it finds in place
Scan_KeepFindings ==
    /\ pc = "loaded"
    /\ graph' = BuildGraph(tree, unreadable)
    /\ findings' = findings \o ScanErrors(unreadable)
    /\ pc' = "scanned"
    /\ UNCHANGED templateVars
    /\ UNCHANGED <<tree, unreadable, strict, policy, exceptions, parsed, error, run, report,
                   previous>>

\* the module and edge sets are built fresh on every run
Scan ==
    /\ pc = "loaded"
    /\ graph' = BuildGraph(tree, unreadable)
    /\ findings' = ScanErrors(unreadable)
    /\ pc' = "scanned"
    /\ UNCHANGED templateVars
    /\ UNCHANGED <<tree, unreadable, strict, policy, exceptions, parsed, error, run, report,
                   previous>>

(***************************************************************************)
(* Rule Evaluator: the per-edge rules, first match wins.                   *)
(***************************************************************************)
\* a layer rule that reads the table in the wrong direction
LayerRule_Reversed(e) ==
    /\ e.from.layer # None
    /\ e.to.layer # None
    /\ e.to.layer # e.from.layer
    /\ ~isAllowed(e.to.layer, e.from.layer)

\* a layer rule that takes a module outside the layers for one that may
\* import nothing and may not be imported
LayerRule_Unscoped(e) ==
    /\ e.to.layer # e.from.layer
    /\ \/ e.from.layer = None
       \/ e.to.layer = None
       \/ ~isAllowed(e.from.layer, e.to.layer)

\* a layer rule that knows no exceptions
LayerRule_NoExceptions(e) ==
    /\ e.from.layer # None
    /\ e.to.layer # None
    /\ e.to.layer # e.from.layer
    /\ ~isAllowed(e.from.layer, e.to.layer)

\* 3.3: an import into a layer the importer's layer may not depend on,
\* unless an exception grants it to the importer's slice
LayerRule(e) ==
    /\ e.from.layer # None
    /\ e.to.layer # None
    /\ e.to.layer # e.from.layer
    /\ ~isAllowed(e.from.layer, e.to.layer)
    /\ ~canImport(e.from, e.to.layer)

\* a public-API rule that does not exempt the barrel file
PublicApiRule_NoBarrel(e) ==
    /\ e.to.slice # None
    /\ e.from.layer # e.to.layer

\* a public-API rule applied to every import that leaves the importer's
\* slice, also inside one layer
PublicApiRule_AnySlice(e) ==
    /\ e.to.slice # None
    /\ ~e.barrel
    /\ SliceId(e.from) # SliceId(e.to)

\* 3.4: an import from another layer that reaches into a slice without
\* going through its index.ts (a deep import of a sibling slice of the same
\* layer is reported as a cross-slice import)
PublicApiRule(e) ==
    /\ e.to.slice # None
    /\ ~e.barrel
    /\ e.from.layer # e.to.layer

\* the layers whose slices are independent units
IndependentSlices(layer) == layer # "shared"

\* a cross-slice rule that forgets to compare the slices
CrossSliceRule_SameSlice(e) ==
    /\ e.from.layer # None
    /\ e.from.layer = e.to.layer
    /\ e.from.slice # None
    /\ e.to.slice # None
    /\ IndependentSlices(e.from.layer)

\* a cross-slice rule that only looks at deep imports
CrossSliceRule_DeepOnly(e) ==
    /\ e.from.layer # None
    /\ e.from.layer = e.to.layer
    /\ e.from.slice # None
    /\ e.to.slice # None
    /\ e.from.slice # e.to.slice
    /\ ~e.barrel
    /\ IndependentSlices(e.from.layer)

\* a cross-slice rule that holds for the shared layer too
CrossSliceRule_NoExemption(e) ==
    /\ e.from.layer # None
    /\ e.from.layer = e.to.layer
    /\ e.from.slice # None
    /\ e.to.slice # None
    /\ e.from.slice # e.to.slice

\* a cross-slice rule that does not ask for one layer
CrossSliceRule_AnyLayer(e) ==
    /\ e.from.layer # None
    /\ e.to.layer # None
    /\ e.from.slice # None
    /\ e.to.slice # None
    /\ SliceId(e.from) # SliceId(e.to)
    /\ IndependentSlices(e.from.layer)

\* an import of another slice of the same layer
CrossSliceRule(e) ==
    /\ e.from.layer # None
    /\ e.from.layer = e.to.layer
    /\ e.from.slice # None
    /\ e.to.slice # None
    /\ e.from.slice # e.to.slice
    /\ IndependentSlices(e.from.layer)

ClassifyEdge(e) ==
    IF LayerRule(e) THEN "LAYER_VIOLATION"
    ELSE IF PublicApiRule(e) THEN "PUBLIC_API_VIOLATION"
    ELSE IF CrossSliceRule(e) THEN "CROSS_SLICE_VIOLATION"
    ELSE "ALLOWED"

EdgeFinding(e) ==
    [kind |-> ClassifyEdge(e), file |-> e.from.path, line |-> e.line,
     target |-> e.to.path, cycle |-> <<>>]

\* an evaluator that stops at the first violation
RECURSIVE EdgeFindings_StopEarly(_)
EdgeFindings_StopEarly(es) ==
    IF es = <<>> THEN <<>>
    ELSE IF ClassifyEdge(Head(es)) = "ALLOWED"
         THEN EdgeFindings_StopEarly(Tail(es))
         ELSE <<EdgeFinding(Head(es))>>

\* the import statements are analysed file by file, every violation is
\* recorded
RECURSIVE EdgeFindings(_)
EdgeFindings(es) ==
    IF es = <<>> THEN <<>>
    ELSE LET rest == EdgeFindings(Tail(es))
         IN  IF ClassifyEdge(Head(es)) = "ALLOWED" THEN rest
             ELSE <<EdgeFinding(Head(es))>> \o rest

(***************************************************************************)
(* Circular-dependency rule: Tarjan's algorithm over the slice-level       *)
(* graph, nodes and successors taken in insertion order.                   *)
(***************************************************************************)
RECURSIVE Dedup(_, _)
Dedup(s, acc) ==
    IF s = <<>> THEN acc
    ELSE Dedup(Tail(s), IF Head(s) \in Range(acc) THEN acc
                        ELSE Append(acc, Head(s)))

RECURSIVE SliceSeq(_)
SliceSeq(ms) ==
    IF ms = <<>> THEN <<>>
    ELSE IF Head(ms).slice = None THEN SliceSeq(Tail(ms))
    ELSE <<SliceId(Head(ms))>> \o SliceSeq(Tail(ms))

\* the slices of the graph, in the order their first module was entered
SliceNodes(g) == Dedup(SliceSeq(g.modules), <<>>)

\* a dependency relation that forgets the direction of an import
RECURSIVE SuccSeq_Undirected(_, _)
SuccSeq_Undirected(es, v) ==
    IF es = <<>> THEN <<>>
    ELSE LET e == Head(es)
             rest == SuccSeq_Undirected(Tail(es), v)
         IN  IF e.from.slice = None \/ e.to.slice = None
                    \/ SliceId(e.from) = SliceId(e.to)
             THEN rest
             ELSE IF SliceId(e.from) = v THEN <<SliceId(e.to)>> \o rest
             ELSE IF SliceId(e.to) = v THEN <<SliceId(e.from)>> \o rest
             ELSE rest

\* the slices that the modules of slice v import from other slices
RECURSIVE SuccSeq(_, _)
SuccSeq(es, v) ==
    IF es = <<>> THEN <<>>
    ELSE IF /\ Head(es).from.slice # None
            /\ Head(es).to.slice # None
            /\ SliceId(Head(es).from) = v
            /\ SliceId(Head(es).to) # v
         THEN <<SliceId(Head(es).to)>> \o SuccSeq(Tail(es), v)
         ELSE SuccSeq(Tail(es), v)

\* slice A depends on slice B if any module in A imports any module in B;
\* circular dependencies are looked for between slices
SliceSuccs(g, v) == Dedup(SuccSeq(g.edges, v), <<>>)

Min(a, b) == IF a <= b THEN a ELSE b

IndexOf(s, x) == CHOOSE i \in DOMAIN s : s[i] = x

TarjanInit(nodes) ==
    [index |-> 0,
     idx |-> [v \in Range(nodes) |-> 0],
     low |-> [v \in Range(nodes) |-> 0],
     stack |-> <<>>,
     sccs |-> <<>>]

\* a visit that does not lower the link on reaching a node on the stack
VisitBack_NoLink(st, v, w) == st

VisitBack(st, v, w) ==
    IF w \in Range(st.stack)
    THEN [st EXCEPT !.low[v] = Min(st.low[v], st.idx[w])]
    ELSE st

RECURSIVE StrongConnect(_, _, _)
RECURSIVE VisitSuccs(_, _, _, _)
VisitSuccs(g, v, ws, st) ==
    IF ws = <<>> THEN st
    ELSE LET w == Head(ws)
             st1 == IF st.idx[w] = 0
                    THEN LET r == StrongConnect(g, w, st)
                         IN  [r EXCEPT !.low[v] = Min(r.low[v], r.low[w])]
                    ELSE VisitBack(st, v, w)
         IN  VisitSuccs(g, v, Tail(ws), st1)

StrongConnect(g, v, st) ==
    LET st1 == [st EXCEPT !.index = st.index + 1,
                          !.idx[v] = st.index + 1,
                          !.low[v] = st.index + 1,
                          !.stack = Append(st.stack, v)]
        st2 == VisitSuccs(g, v, SliceSuccs(g, v), st1)
        p   == IndexOf(st2.stack, v)
    IN  IF st2.low[v] = st2.idx[v]
        THEN [st2 EXCEPT !.sccs = Append(st2.sccs,
                                     SubSeq(st2.stack, p, Len(st2.stack))),
                         !.stack = SubSeq(st2.stack, 1, p - 1)]
        ELSE st2

RECURSIVE TarjanLoop(_, _, _)
TarjanLoop(g, nodes, st) ==
    IF nodes = <<>> THEN st
    ELSE TarjanLoop(g, Tail(nodes),
                    IF st.idx[Head(nodes)] = 0
                    THEN StrongConnect(g, Head(nodes), st)
                    ELSE st)

\* the strongly connected components, each in the order of its discovery
Tarjan(g) == TarjanLoop(g, SliceNodes(g), TarjanInit(SliceNodes(g))).sccs

\* size > 1, or a self-loop
Nontrivial(g, c) ==
    \/ Len(c) > 1
    \/ c[1] \in Range(SliceSuccs(g, c[1]))

SliceIdChars(id) == Chars(id[1]) \o <<47>> \o Chars(id[2])

\* the position of the lexicographically smallest slice identifier of c
MinPos(c) ==
    CHOOSE i \in DOMAIN c :
        \A j \in DOMAIN c :
            j # i => LexLess(SliceIdChars(c[i]), SliceIdChars(c[j]))

\* a cycle reported as it was discovered
Canonicalize_AsFound(c) == c

\* rotate the cycle so that it starts at its smallest slice identifier
Canonicalize(c) ==
    SubSeq(c, MinPos(c), Len(c)) \o SubSeq(c, 1, MinPos(c) - 1)

CycleFinding(c) ==
    [kind |-> "CIRCULAR_DEPENDENCY", file |-> <<>>, line |-> 0,
     target |-> <<>>, cycle |-> Canonicalize(c)]

RECURSIVE CycleFindings(_, _)
CycleFindings(g, cs) ==
    IF cs = <<>> THEN <<>>
    ELSE LET rest == CycleFindings(g, Tail(cs))
         IN  IF Nontrivial(g, Head(cs))
             THEN <<CycleFinding(Head(cs))>> \o rest
             ELSE rest

EvaluateGraph(g) == EdgeFindings(g.edges) \o CycleFindings(g, Tarjan(g))

\* an evaluator that uses up the exceptions it has looked at
Evaluate_UsesUpExceptions ==
    /\ pc = "scanned"
    /\ findings' = findings \o EvaluateGraph(graph)
    /\ exceptions' = NoExceptions
    /\ pc' = "evaluated"
    /\ UNCHANGED templateVars
    /\ UNCHANGED <<tree, unreadable, strict, policy, parsed, error, run,
                   graph, report, previous>>

Evaluate ==
    /\ pc = "scanned"
    /\ findings' = findings \o EvaluateGraph(graph)
    /\ pc' = "evaluated"
    /\ UNCHANGED templateVars
    /\ UNCHANGED <<tree, unreadable, strict, policy, exceptions, parsed, error, run, graph,
                   report, previous>>

(***************************************************************************)
(* Report Builder: severities, the fixed order of the report, the summary  *)
(* and the status.                                                         *)
(***************************************************************************)
Kinds ==
    <<"SCAN_ERROR", "LAYER_VIOLATION", "PUBLIC_API_VIOLATION",
      "CROSS_SLICE_VIOLATION", "CIRCULAR_DEPENDENCY">>

KindRank(kind) == IndexOf(Kinds, kind)

\* the severity table with the cross-slice import as an error
BaseSeverity_AllError(kind) == "ERROR"

\* the severity a kind is reported with when strict mode is off: the report
\* shows the layer and public-API violations as ERROR and the cross-slice
\* import as WARNING; circular dependencies and scan errors are errors
BaseSeverity(kind) ==
    IF kind = "CROSS_SLICE_VIOLATION" THEN "WARNING" ELSE "ERROR"

\* a strict mode that leaves warnings as they are
Severity_IgnoreStrict(kind, strictMode) == BaseSeverity(kind)

\* strict mode: warnings are reported as errors too
Severity(kind, strictMode) ==
    IF strictMode /\ BaseSeverity(kind) = "WARNING" THEN "ERROR"
    ELSE BaseSeverity(kind)

RECURSIVE CycleChars(_)
CycleChars(c) ==
    IF c = <<>> THEN <<>>
    ELSE SliceIdChars(Head(c)) \o <<32>> \o CycleChars(Tail(c))

\* kind, then file path, then line of the offending import
FindingLess(a, b) ==
    \/ KindRank(a.kind) < KindRank(b.kind)
    \/ /\ a.kind = b.kind
       /\ \/ LexLess(PathChars(a.file), PathChars(b.file))
          \/ a.file = b.file /\ a.line < b.line
          \/ /\ a.file = b.file
             /\ a.line = b.line
             /\ LexLess(CycleChars(a.cycle), CycleChars(b.cycle))

RECURSIVE Insert(_, _)
Insert(sorted, f) ==
    IF sorted = <<>> THEN <<f>>
    ELSE IF FindingLess(f, Head(sorted)) THEN <<f>> \o sorted
    ELSE <<Head(sorted)>> \o Insert(Tail(sorted), f)

RECURSIVE SortFindings(_)
SortFindings(fs) ==
    IF fs = <<>> THEN <<>>
    ELSE Insert(SortFindings(Tail(fs)), Head(fs))

WithSeverity(fs, strictMode) ==
    [i \in DOMAIN fs |->
        [kind |-> fs[i].kind, file |-> fs[i].file, line |-> fs[i].line,
         target |-> fs[i].target, cycle |-> fs[i].cycle,
         severity |-> Severity(fs[i].kind, strictMode)]]

Summary(fs) ==
    [byKind |-> [k \in Range(Kinds) |->
                    Cardinality({i \in DOMAIN fs : fs[i].kind = k})],
     bySeverity |-> [v \in {"ERROR", "WARNING"} |->
                    Cardinality({i \in DOMAIN fs : fs[i].severity = v})]]

\* FAIL if any ERROR-severity finding exists, otherwise PASS
Status(fs) ==
    IF \E i \in DOMAIN fs : fs[i].severity = "ERROR" THEN "FAIL" ELSE "PASS"

\* a report that lists the findings in the order they were found
BuildReport_Unsorted(fs, strictMode) ==
    LET rated == WithSeverity(fs, strictMode)
    IN  [findings |-> rated, summary |-> Summary(rated),
         status |-> Status(rated)]

BuildReport(fs, strictMode) ==
    LET rated == WithSeverity(SortFindings(fs), strictMode)
    IN  [findings |-> rated, summary |-> Summary(rated),
         status |-> Status(rated)]

Report ==
    /\ pc = "evaluated"
    /\ report' = BuildReport(findings, strict)
    /\ pc' = "reported"
    /\ UNCHANGED templateVars
    /\ UNCHANGED <<tree, unreadable, strict, policy, exceptions, parsed, error, run, graph,
                   findings, previous>>

Next == LoadPolicy \/ Scan \/ Evaluate \/ Report

Spec == Init /\ [][Next]_vars

(***************************************************************************)
(* Parallel scanning: the files are parsed by concurrent workers, each     *)
(* keeping the result of its file; the shared graph is assembled by one    *)
(* merge step once every parse has completed, from the results in the      *)
(* order in which the parses completed.                                    *)
(***************************************************************************)
ParallelFiles ==
    {<<"features", "edit-user", "index.ts">>,
     <<"features", "delete-user", "index.ts">>,
     <<"features", "auth", "lib", "validation.ts">>}

ParallelTrees ==
    {s \in DistinctSeqs(Imports(ParallelFiles), MaxParallelImports) :
        WalkOrdered(s)}

\* the files of the tree that hold import statements
FilesOf(s) == {s[i].file : i \in DOMAIN s}

\* the statements of the files in the given order of files, each file's
\* statements in the order of its text
RECURSIVE MergedWalk(_, _)
MergedWalk(s, order) ==
    IF order = <<>> THEN <<>>
    ELSE LET Of(x) == x.file = Head(order)
         IN  SelectSeq(s, Of) \o MergedWalk(s, Tail(order))

InitParallel ==
    /\ tree \in ParallelTrees
    /\ unreadable = {}
    /\ policy = LAYER_DEPENDENCIES
    /\ exceptions = NoExceptions
    /\ strict \in BOOLEAN
    /\ pc = "start"
    /\ error = None
    /\ run = 1
    /\ parsed = <<>>
    /\ graph = EmptyGraph
    /\ findings = <<>>
    /\ report = NoReport
    /\ previous = NoOutcome
    /\ TemplatesIdle

\* a worker completes the parse of one file
Parse ==
    /\ pc = "loaded"
    /\ \E f \in FilesOf(tree) \ Range(parsed) : parsed' = Append(parsed, f)
    /\ UNCHANGED templateVars
    /\ UNCHANGED <<tree, unreadable, strict, policy, exceptions, pc, error,
                   run, graph, findings, report, previous>>

\* a merge that starts as soon as one parse has completed
Merge_Early ==
    /\ pc = "loaded"
    /\ parsed # <<>>
    /\ graph' = BuildGraph(MergedWalk(tree, parsed), unreadable)
    /\ findings' = ScanErrors(unreadable)
    /\ pc' = "scanned"
    /\ UNCHANGED templateVars
    /\ UNCHANGED <<tree, unreadable, strict, policy, exceptions, parsed,
                   error, run, report, previous>>

\* the merge step: after all per-file parses have completed
Merge ==
    /\ pc = "loaded"
    /\ Range(parsed) = FilesOf(tree)
    /\ graph' = BuildGraph(MergedWalk(tree, parsed), unreadable)
    /\ findings' = ScanErrors(unreadable)
    /\ pc' = "scanned"
    /\ UNCHANGED templateVars
    /\ UNCHANGED <<tree, unreadable, strict, policy, exceptions, parsed,
                   error, run, report, previous>>

NextParallel == LoadPolicy \/ Parse \/ Merge \/ Evaluate \/ Report

SpecParallel == InitParallel /\ [][NextParallel]_vars

(***************************************************************************)
(* Consecutive runs: the validator is invoked again on the same tree, with *)
(* the same policy and strictness mode; nothing but the outcome of the     *)
(* earlier run is kept for comparison.                                     *)
(***************************************************************************)
Rerun ==
    /\ pc \in {"reported", "aborted"}
    /\ run < MaxRuns
    /\ previous' = Outcome
    /\ run' = run + 1
    /\ pc' = "start"
    /\ UNCHANGED templateVars
    /\ UNCHANGED <<tree, unreadable, strict, policy, exceptions, parsed, error, graph, findings,
                   report>>

\* the trees that are validated repeatedly
InitRerun ==
    Init /\ (tree \in CycleTrees \/ tree \in ConfigTrees
                \/ tree \in ExceptionTrees)

NextRerun == LoadPolicy \/ Scan \/ Evaluate \/ Report \/ Rerun

SpecRerun == InitRerun /\ [][NextRerun]_vars

(***************************************************************************)
(* React Query templates: the query key factory.  A query key is an array  *)
(* whose elements are strings or, for a filtered list, the object          *)
(* { filters }.                                                            *)
(***************************************************************************)
\* instances of the hooks that mutate one after another or concurrently
MaxMutations == 2

\* a string element of a key
Str(s) == [obj |-> FALSE, str |-> s, has |-> FALSE, fields |-> {}]

\* the element { filters } of a list key
FiltersObject(filters) ==
    [obj |-> TRUE, str |-> "", has |-> filters.has, fields |-> filters.fields]

\* list() called without filters
NoFilters == [has |-> FALSE, fields |-> {}]

Filters(fields) == [has |-> TRUE, fields |-> fields]

FilterChoices ==
    {NoFilters, Filters({"status=active"}),
     Filters({"status=active", "search=john"})}

Ids == {"1", "2"}

\* the entity the mutating component works on
EditedIds == {"1"}

all == <<Str("user")>>

lists == all \o <<Str("list")>>

list(filters) == lists \o <<FiltersObject(filters)>>

details == all \o <<Str("detail")>>

\* a factory whose detail key leaves out the id
detail_NoId(id) == details

detail(id) == details \o <<Str(id)>>

ListKeys == {list(f) : f \in FilterChoices}

DetailKeys == {detail(id) : id \in Ids}

IsPrefix(p, k) ==
    /\ Len(p) <= Len(k)
    /\ \A i \in DOMAIN p : p[i] = k[i]

\* an element of a query key matches the element of a filter key: equal
\* strings, or an object that has every property of the filter's object
ElementMatches(a, b) ==
    IF a.obj /\ b.obj
    THEN a.has = b.has /\ b.fields \subseteq a.fields
    ELSE a = b

\* queryClient.*Queries({ queryKey }) selects the queries whose key starts
\* with the given key
Matching(cache, queryKey) ==
    {k \in DOMAIN cache :
        /\ Len(queryKey) <= Len(k)
        /\ \A i \in DOMAIN queryKey : ElementMatches(k[i], queryKey[i])}

(***************************************************************************)
(* The query cache: a cached query has data and an invalidated flag; a key *)
(* without cached data is not in the cache.                                *)
(***************************************************************************)
Entity(id) ==
    IF id = "1" THEN [id |-> "1", name |-> "ann"]
    ELSE [id |-> "2", name |-> "bob"]

\* params.data of an update: Partial<Entity>
Patches == {[name |-> "amy"], [name |-> "al"]}

\* the value of getQueryData for a key that is not cached
Undefined == [id |-> "", name |-> ""]

Fresh(data) == [data |-> data, invalidated |-> FALSE]

ServerList(filters) ==
    IF filters = NoFilters THEN <<Entity("1"), Entity("2")>>
    ELSE IF filters = Filters({"status=active"}) THEN <<Entity("1")>>
    ELSE <<Entity("2")>>

\* the queries a component has fetched before a mutation starts
CachedKeySets ==
    {DetailKeys \cup ListKeys,
     {detail("2")} \cup ListKeys,
     {detail("1"), detail("2")}}

FetchedCache(keys) ==
    [k \in keys |->
        LET last == k[Len(k)]
        IN  IF k \in DetailKeys THEN Fresh(Entity(last.str))
            ELSE Fresh(ServerList([has |-> last.has,
                                   fields |-> last.fields]))]

getQueryData(cache, key) ==
    IF key \in DOMAIN cache THEN cache[key].data ELSE Undefined

\* setQueryData(key, data): the data is stored and the query is no longer
\* invalidated; undefined data stores nothing
setQueryData(cache, key, data) ==
    [k \in DOMAIN cache \cup {key} |-> IF k = key THEN Fresh(data) ELSE cache[k]]

getQueriesData(cache, queryKey) ==
    [k \in Matching(cache, queryKey) |-> cache[k].data]

removeQueries(cache, queryKey) ==
    [k \in DOMAIN cache \ Matching(cache, queryKey) |-> cache[k]]

invalidateQueries(cache, queryKey) ==
    [k \in DOMAIN cache |->
        IF k \in Matching(cache, queryKey)
        THEN [cache[k] EXCEPT !.invalidated = TRUE]
        ELSE cache[k]]

\* { ...old, ...params.data }
Spread(old, data) ==
    [f \in DOMAIN old \cup DOMAIN data |->
        IF f \in DOMAIN data THEN data[f] ELSE old[f]]

\* old?.filter((item) => item.id !== id)
Without(items, id) ==
    LET Other(item) == item.id # id IN SelectSeq(items, Other)

(***************************************************************************)
(* The mutation hooks.  A mutation goes through mutate (onMutate awaits    *)
(* cancelQueries), the rest of onMutate, the mutation function, onError    *)
(* when it failed, and onSettled.                                          *)
(***************************************************************************)
Mutations == 1 .. MaxMutations

Idle ==
    [kind |-> None, id |-> "", data |-> <<>>, pc |-> "idle", failed |-> FALSE,
     previous |-> Undefined, previousLists |-> <<>>, order |-> 0,
     before |-> <<>>]

\* the data of every cached query
DataOf(cache) == [k \in DOMAIN cache |-> cache[k].data]

\* the mutations whose onMutate has taken its snapshot
Snapshotted == {m \in Mutations : mutations[m].order > 0}

InitCache ==
    /\ ValidatorIdle
    /\ ClientIdle
    /\ LimiterIdle
    /\ queries \in {FetchedCache(keys) : keys \in CachedKeySets}
    /\ mutations = [m \in Mutations |-> Idle]

\* mutate(params) of useUpdate or mutate(id) of useDelete: onMutate starts
\* and awaits cancelQueries
Mutate(m) ==
    /\ mutations[m].pc = "idle"
    /\ \A n \in Mutations : n < m => mutations[n].pc # "idle"
    /\ \E id \in EditedIds :
          \/ \E data \in Patches :
                mutations' = [mutations EXCEPT ![m].kind = "update",
                                               ![m].id = id,
                                               ![m].data = data,
                                               ![m].pc = "onMutate"]
          \/ mutations' = [mutations EXCEPT ![m].kind = "delete",
                                            ![m].id = id,
                                            ![m].pc = "onMutate"]
    /\ UNCHANGED queries
    /\ UNCHANGED <<validatorVars, clientVars, limiterVars>>

\* onMutate of useUpdate after the await: snapshot, then optimistic write
useUpdate_onMutate(m) ==
    LET id == mutations[m].id
    IN  /\ mutations[m].kind = "update"
        /\ mutations[m].pc = "onMutate"
        /\ queries' =
              IF detail(id) \in DOMAIN queries
              THEN setQueryData(queries, detail(id),
                                Spread(queries[detail(id)].data,
                                       mutations[m].data))
              ELSE queries
        /\ mutations' =
              [mutations EXCEPT
                  ![m].previous = getQueryData(queries, detail(id)),
                  ![m].order = Cardinality(Snapshotted) + 1,
                  ![m].before = DataOf(queries),
                  ![m].pc = "pending"]
        /\ UNCHANGED <<validatorVars, clientVars, limiterVars>>

\* onMutate of useDelete after the awaits: snapshots, then the detail is
\* removed and the item is filtered out of every cached list
useDelete_onMutate(m) ==
    LET id == mutations[m].id
        removed == removeQueries(queries, detail(id))
    IN  /\ mutations[m].kind = "delete"
        /\ mutations[m].pc = "onMutate"
        /\ queries' =
              [k \in DOMAIN removed |->
                  IF k \in Matching(removed, lists)
                  THEN Fresh(Without(removed[k].data, id))
                  ELSE removed[k]]
        /\ mutations' =
              [mutations EXCEPT
                  ![m].previous = getQueryData(queries, detail(id)),
                  ![m].previousLists = getQueriesData(queries, lists),
                  ![m].order = Cardinality(Snapshotted) + 1,
                  ![m].before = DataOf(queries),
                  ![m].pc = "pending"]
        /\ UNCHANGED <<validatorVars, clientVars, limiterVars>>

\* the mutation function resolves
Succeed(m) ==
    /\ mutations[m].pc = "pending"
    /\ mutations' = [mutations EXCEPT ![m].pc = "settling"]
    /\ UNCHANGED queries
    /\ UNCHANGED <<validatorVars, clientVars, limiterVars>>

\* the mutation function rejects
Fail(m) ==
    /\ mutations[m].pc = "pending"
    /\ mutations' = [mutations EXCEPT ![m].pc = "failed", ![m].failed = TRUE]
    /\ UNCHANGED queries
    /\ UNCHANGED <<validatorVars, clientVars, limiterVars>>

\* an onError of useUpdate that does not roll back
useUpdate_onError_NoRollback(m) ==
    /\ mutations[m].kind = "update"
    /\ mutations[m].pc = "failed"
    /\ mutations' = [mutations EXCEPT ![m].pc = "settling"]
    /\ UNCHANGED queries
    /\ UNCHANGED <<validatorVars, clientVars, limiterVars>>

\* onError of useUpdate: the snapshot, when there is one, is written back
useUpdate_onError(m) ==
    /\ mutations[m].kind = "update"
    /\ mutations[m].pc = "failed"
    /\ queries' =
          IF mutations[m].previous # Undefined
          THEN setQueryData(queries, detail(mutations[m].id),
                            mutations[m].previous)
          ELSE queries
    /\ mutations' = [mutations EXCEPT ![m].pc = "settling"]
    /\ UNCHANGED <<validatorVars, clientVars, limiterVars>>

RECURSIVE RestoreLists(_, _, _)
RestoreLists(cache, snapshot, keys) ==
    IF keys = {} THEN cache
    ELSE LET k == CHOOSE x \in keys : TRUE
         IN  RestoreLists(setQueryData(cache, k, snapshot[k]), snapshot,
                          keys \ {k})

\* an onError of useDelete that restores the detail only
useDelete_onError_DetailOnly(m) ==
    /\ mutations[m].kind = "delete"
    /\ mutations[m].pc = "failed"
    /\ queries' =
          IF mutations[m].previous # Undefined
          THEN setQueryData(queries, detail(mutations[m].id),
                            mutations[m].previous)
          ELSE queries
    /\ mutations' = [mutations EXCEPT ![m].pc = "settling"]
    /\ UNCHANGED <<validatorVars, clientVars, limiterVars>>

\* onError of useDelete: the detail snapshot, when there is one, and every
\* snapshotted list are written back
useDelete_onError(m) ==
    LET restored ==
            IF mutations[m].previous # Undefined
            THEN setQueryData(queries, detail(mutations[m].id),
                              mutations[m].previous)
            ELSE queries
    IN  /\ mutations[m].kind = "delete"
        /\ mutations[m].pc = "failed"
        /\ queries' = RestoreLists(restored, mutations[m].previousLists,
                                   DOMAIN mutations[m].previousLists)
        /\ mutations' = [mutations EXCEPT ![m].pc = "settling"]
        /\ UNCHANGED <<validatorVars, clientVars, limiterVars>>

\* onSettled of useUpdate: detail(id) and lists() are invalidated
useUpdate_onSettled(m) ==
    /\ mutations[m].kind = "update"
    /\ mutations[m].pc = "settling"
    /\ queries' =
          invalidateQueries(
              invalidateQueries(queries, detail(mutations[m].id)), lists)
    /\ mutations' = [mutations EXCEPT ![m].pc = "done"]
    /\ UNCHANGED <<validatorVars, clientVars, limiterVars>>

\* onSettled of useDelete: everything under the base key is invalidated
useDelete_onSettled(m) ==
    /\ mutations[m].kind = "delete"
    /\ mutations[m].pc = "settling"
    /\ queries' = invalidateQueries(queries, all)
    /\ mutations' = [mutations EXCEPT ![m].pc = "done"]
    /\ UNCHANGED <<validatorVars, clientVars, limiterVars>>

NextCache ==
    \E m \in Mutations :
        \/ Mutate(m)
        \/ useUpdate_onMutate(m)
        \/ useDelete_onMutate(m)
        \/ Succeed(m)
        \/ Fail(m)
        \/ useUpdate_onError(m)
        \/ useDelete_onError(m)
        \/ useUpdate_onSettled(m)
        \/ useDelete_onSettled(m)

SpecCache == InitCache /\ [][NextCache]_vars

(***************************************************************************)
(* Queries and invalidation through the key factory, with no mutation.     *)
(***************************************************************************)
InitKeys ==
    /\ ValidatorIdle
    /\ ClientIdle
    /\ LimiterIdle
    /\ queries = <<>>
    /\ mutations = [m \in Mutations |-> Idle]

\* a component reads a list or an entity through the query factory, or a
\* query that was invalidated is fetched again
Fetch ==
    /\ \E k \in DetailKeys \cup ListKeys :
          /\ k \in DOMAIN queries => queries[k].invalidated
          /\ queries' = setQueryData(queries, k, FetchedCache({k})[k])
    /\ UNCHANGED mutations
    /\ UNCHANGED <<validatorVars, clientVars, limiterVars>>

\* a component invalidates through the key factory: everything, the lists,
\* the details, one list or one entity
Invalidate ==
    /\ \E queryKey \in {all, lists, details} \cup ListKeys \cup DetailKeys :
          /\ \E k \in Matching(queries, queryKey) : ~queries[k].invalidated
          /\ queries' = invalidateQueries(queries, queryKey)
    /\ UNCHANGED mutations
    /\ UNCHANGED <<validatorVars, clientVars, limiterVars>>

NextKeys == Fetch \/ Invalidate

SpecKeys == InitKeys /\ [][NextKeys]_vars

(***************************************************************************)
(* The API client template: requests pass the beforeRequest hook, which    *)
(* adds the stored authentication token, and the afterResponse hook, which *)
(* turns an error response into a thrown ApiError.  The token lives in     *)
(* localStorage under 'auth_token'.                                        *)
(***************************************************************************)
Item(value) == [has |-> TRUE, value |-> value]

\* the tokens an application hands to setAuthToken
Tokens == {"", "t1", "t2"}

Bearer(token) == [scheme |-> "Bearer", credentials |-> token]

\* the Authorization header of config.headers or of the options of a call
CallerHeaders == {NoHeader, [scheme |-> "Basic", credentials |-> "dXNlcg"]}

Methods == {"get", "post", "put", "patch", "delete"}

\* the two templates of the client: shared/api/client.ts and the client of
\* the project setup
Templates == {"api-client", "rq-setup"}

Json(message) == [json |-> TRUE, message |-> message]

Responses ==
    {Response(200, "OK", Json(""))}
        \cup {Response(200, "OK", NotJson)}
        \cup {Response(status, statusText, body) :
                status \in {401, 404, 500},
                statusText \in {"", "Error"},
                body \in {NotJson, Json(""), Json("Invalid input")}}

ApiError(message, status) ==
    [name |-> "ApiError", message |-> message, status |-> status]

\* response.json() of a body that is not JSON
SyntaxError == [name |-> "SyntaxError", message |-> "", status |-> 0]

AuthEvent(event, token) == [event |-> event, token |-> token]

\* localStorage.getItem('auth_token')
getAuthToken == storage

\* a token counts when it is a non-empty string
Truthy(item) == item.has /\ item.value # ""

setAuthToken(token) ==
    /\ storage' = Item(token)
    /\ lastAuth' = AuthEvent("set", token)
    /\ UNCHANGED <<call, location>>
    /\ UNCHANGED <<validatorVars, cacheVars, limiterVars>>

clearAuthToken ==
    /\ storage' = NoItem
    /\ lastAuth' = AuthEvent("clear", "")
    /\ UNCHANGED <<call, location>>
    /\ UNCHANGED <<validatorVars, cacheVars, limiterVars>>

\* get, post, put, patch or delete is called: the request is created with
\* the headers of the configuration and of the options
Request ==
    /\ call.pc = "idle"
    /\ \E method \in Methods, template \in Templates,
          header \in CallerHeaders :
          call' = [NoCall EXCEPT !.pc = "created",
                                 !.template = template,
                                 !.method = method,
                                 !.authorization = header]
    /\ UNCHANGED <<storage, lastAuth, location>>
    /\ UNCHANGED <<validatorVars, cacheVars, limiterVars>>

\* a hook that sets the header from whatever the storage returns
beforeRequestHook_Always ==
    /\ call.pc = "created"
    /\ call' = [call EXCEPT !.pc = "sent",
                            !.authorization = Bearer(getAuthToken.value)]
    /\ UNCHANGED <<storage, lastAuth, location>>
    /\ UNCHANGED <<validatorVars, cacheVars, limiterVars>>

\* the beforeRequest hook: the header is set when a token is stored
beforeRequestHook ==
    /\ call.pc = "created"
    /\ call' = [call EXCEPT !.pc = "sent",
                            !.authorization =
                                IF Truthy(getAuthToken)
                                THEN Bearer(getAuthToken.value)
                                ELSE @]
    /\ UNCHANGED <<storage, lastAuth, location>>
    /\ UNCHANGED <<validatorVars, cacheVars, limiterVars>>

\* the server answers
Respond ==
    /\ call.pc = "sent"
    /\ \E response \in Responses :
          call' = [call EXCEPT !.pc = "responded", !.response = response]
    /\ UNCHANGED <<storage, lastAuth, location>>
    /\ UNCHANGED <<validatorVars, cacheVars, limiterVars>>

\* the afterResponse hook up to its first await: a good response is passed
\* on; for an error response the body is awaited, and the client of the
\* project setup has removed the token of a 401 response by then
afterResponseHook ==
    /\ call.pc = "responded"
    /\ IF call.response.ok
       THEN /\ call' = [call EXCEPT !.pc = "passed"]
            /\ UNCHANGED <<storage, lastAuth>>
       ELSE IF call.template = "rq-setup" /\ call.response.status = 401
       THEN /\ storage' = NoItem
            /\ lastAuth' = AuthEvent("401", "")
            /\ call' = [call EXCEPT !.pc = "handleError", !.cleared = TRUE]
       ELSE /\ call' = [call EXCEPT !.pc = "handleError"]
            /\ UNCHANGED <<storage, lastAuth>>
    /\ UNCHANGED location
    /\ UNCHANGED <<validatorVars, cacheVars, limiterVars>>

\* data?.message || response.statusText || 'An error occurred', where data
\* is the parsed body or, when it cannot be parsed, the status text
ErrorMessage(response) ==
    IF response.body.json /\ response.body.message # ""
    THEN response.body.message
    ELSE IF response.statusText # "" THEN response.statusText
    ELSE "An error occurred"

\* an error handler that keeps the token of a 401 response
handleError_KeepToken ==
    /\ call.pc = "handleError"
    /\ call' = [call EXCEPT
                  !.pc = "rejected",
                  !.error = ApiError(ErrorMessage(call.response),
                                     call.response.status)]
    /\ UNCHANGED <<storage, lastAuth, location>>
    /\ UNCHANGED <<validatorVars, cacheVars, limiterVars>>

\* handleError after the body was read: a 401 response goes through
\* handleUnauthorized (token removed, redirect to the login page), then
\* the ApiError is thrown and the call rejects
handleError ==
    /\ call.pc = "handleError"
    /\ IF call.template = "api-client" /\ call.response.status = 401
       THEN /\ storage' = NoItem
            /\ lastAuth' = AuthEvent("401", "")
            /\ location' = "/login"
            /\ call' = [call EXCEPT
                          !.pc = "rejected",
                          !.cleared = TRUE,
                          !.error = ApiError(ErrorMessage(call.response),
                                             call.response.status)]
       ELSE /\ call' = [call EXCEPT
                          !.pc = "rejected",
                          !.error = ApiError(ErrorMessage(call.response),
                                             call.response.status)]
            /\ UNCHANGED <<storage, lastAuth, location>>
    /\ UNCHANGED <<validatorVars, cacheVars, limiterVars>>

\* .json<T>() of the response that passed the hook: the parsed value is
\* returned, or the parse fails
Return ==
    /\ call.pc = "passed"
    /\ call' = IF call.response.body.json
               THEN [call EXCEPT !.pc = "returned"]
               ELSE [call EXCEPT !.pc = "rejected", !.error = SyntaxError]
    /\ UNCHANGED <<storage, lastAuth, location>>
    /\ UNCHANGED <<validatorVars, cacheVars, limiterVars>>

\* the caller has the value or the error; the client is free again
Complete ==
    /\ call.pc \in {"returned", "rejected"}
    /\ call' = NoCall
    /\ UNCHANGED <<storage, lastAuth, location>>
    /\ UNCHANGED <<validatorVars, cacheVars, limiterVars>>

InitClient ==
    /\ ValidatorIdle
    /\ CacheIdle
    /\ ClientIdle
    /\ LimiterIdle

NextClient ==
    \/ \E token \in Tokens : setAuthToken(token)
    \/ clearAuthToken
    \/ Request
    \/ beforeRequestHook
    \/ Respond
    \/ afterResponseHook
    \/ handleError
    \/ Return
    \/ Complete

SpecClient == InitClient /\ [][NextClient]_vars

(***************************************************************************)
(* The rate limited client: requests are queued and one loop takes them    *)
(* from the queue, one at a time, with a pause after each.                 *)
(***************************************************************************)
\* requests handed to enqueueRequest
MaxRequests == 5

\* a call of processQueue that awaits its request or its pause
Loop(at, request) == [pc |-> at, request |-> request]

\* the requests that are executing
Executing == {l.request : l \in {x \in loops : x.pc = "request"}}

\* processQueue up to its first await: an empty queue ends the processing;
\* otherwise the first request is taken from the queue and started
processQueue(q, active, order) ==
    IF q = <<>>
    THEN [queue |-> q, isProcessing |-> FALSE, loops |-> active,
          started |-> order]
    ELSE [queue |-> Tail(q), isProcessing |-> TRUE,
          loops |-> active \cup {Loop("request", Head(q))},
          started |-> Append(order, Head(q))]

\* an enqueueRequest that starts processQueue whether or not one is active
enqueueRequest_AlwaysProcess ==
    /\ Len(enqueued) < MaxRequests
    /\ LET request == Len(enqueued) + 1
           next == processQueue(Append(queue, request), loops, started)
       IN  /\ enqueued' = Append(enqueued, request)
           /\ outcome' = Append(outcome, "pending")
           /\ queue' = next.queue
           /\ isProcessing' = next.isProcessing
           /\ loops' = next.loops
           /\ started' = next.started
    /\ UNCHANGED <<validatorVars, cacheVars, clientVars>>

\* enqueueRequest: the request is pushed, and processQueue is called when
\* none is active
enqueueRequest ==
    /\ Len(enqueued) < MaxRequests
    /\ LET request == Len(enqueued) + 1
           next == processQueue(Append(queue, request), loops, started)
       IN  /\ enqueued' = Append(enqueued, request)
           /\ outcome' = Append(outcome, "pending")
           /\ IF ~isProcessing
              THEN /\ queue' = next.queue
                   /\ isProcessing' = next.isProcessing
                   /\ loops' = next.loops
                   /\ started' = next.started
              ELSE /\ queue' = Append(queue, request)
                   /\ UNCHANGED <<isProcessing, loops, started>>
    /\ UNCHANGED <<validatorVars, cacheVars, clientVars>>

\* the request of a loop settles: the promise of enqueueRequest resolves or
\* rejects, and the loop pauses
Settle ==
    /\ \E l \in loops :
          /\ l.pc = "request"
          /\ \E result \in {"resolved", "rejected"} :
                outcome' = [outcome EXCEPT ![l.request] = result]
          /\ loops' = (loops \ {l}) \cup {Loop("delay", l.request)}
    /\ UNCHANGED <<queue, isProcessing, enqueued, started>>
    /\ UNCHANGED <<validatorVars, cacheVars, clientVars>>

\* the pause of a loop is over: processQueue is called again
Resume ==
    /\ \E l \in loops :
          /\ l.pc = "delay"
          /\ LET next == processQueue(queue, loops \ {l}, started)
             IN  /\ queue' = next.queue
                 /\ isProcessing' = next.isProcessing
                 /\ loops' = next.loops
                 /\ started' = next.started
    /\ UNCHANGED <<enqueued, outcome>>
    /\ UNCHANGED <<validatorVars, cacheVars, clientVars>>

InitLimiter ==
    /\ ValidatorIdle
    /\ CacheIdle
    /\ ClientIdle
    /\ LimiterIdle

NextLimiter == enqueueRequest \/ Settle \/ Resume

SpecLimiter == InitLimiter /\ [][NextLimiter]_vars

(***************************************************************************)
(* Properties.                                                             *)
(***************************************************************************)
Evaluated == pc \in {"evaluated", "reported"}

Reported == pc = "reported"

\* the tree is the single import of target by file, and every file is read
OnlyImport(file, target) ==
    /\ tree = <<[file |-> file, target |-> target]>>
    /\ unreadable = {}
    /\ policy = LAYER_DEPENDENCIES
    /\ exceptions = NoExceptions

\* positions of the findings of fs that reference edge e with the kind
FindingsFor(fs, e, kind) ==
    {i \in DOMAIN fs : /\ fs[i].kind = kind
                       /\ fs[i].file = e.from.path
                       /\ fs[i].line = e.line
                       /\ fs[i].target = e.to.path}

OfKind(fs, kind) == {i \in DOMAIN fs : fs[i].kind = kind}

GraphEdges == Range(graph.edges)

\* C1: under the default policy isAllowed(fromLayer, toLayer) is true exactly
\* when toLayer is strictly below fromLayer in the order
\* shared < entities < features < widgets < pages < app, and allowedLayers(L)
\* is the set of the layers strictly below L.
C1_PolicyIsStrictlyDownward ==
    (policy = LAYER_DEPENDENCIES /\ pc \in {"aborted", "reported"}) =>
        /\ \A a, b \in Layers :
               a # b => (isAllowed(a, b) <=> Level(b) < Level(a))
        /\ \A a \in Layers :
               allowedLayers(a) = {b \in Layers : Level(b) < Level(a)}
        /\ \A e \in GraphEdges :
               (e.from.layer # None /\ e.to.layer # None
                   /\ Level(e.to.layer) < Level(e.from.layer))
               => FindingsFor(findings, e, "LAYER_VIOLATION") = {}

\* an import from the top layer into the bottom layer was evaluated and
\* reported without any finding
C1_Witness ==
    /\ Reported
    /\ OnlyImport(<<"app", "App.tsx">>, <<"shared", "api", "index.ts">>)
    /\ report.findings = <<>>

UpwardFile == <<"entities", "user", "api", "user.api.ts">>

UpwardTarget == <<"features", "edit-user", "index.ts">>

HomePage == <<"pages", "Home.tsx">>

UserTypes == <<"entities", "user", "model", "types.ts">>

\* the edge targets a path inside a slice that is not the slice's barrel
DeepImport(e) == e.to.slice # None /\ ~e.barrel

\* the edge leaves the importer's slice, or the importer has no slice
CrossesSlice(e) == e.from.slice = None \/ SliceId(e.from) # SliceId(e.to)

\* the direct import of entities/user/model/types.ts by pages/Home.tsx
\* yields exactly one PUBLIC_API_VIOLATION and no other finding
C3_Scenario ==
    (Reported /\ OnlyImport(HomePage, UserTypes)) =>
        /\ Len(report.findings) = 1
        /\ report.findings[1].kind = "PUBLIC_API_VIOLATION"
        /\ report.findings[1].file = HomePage
        /\ report.findings[1].target = UserTypes

\* C3 as stated: every edge that crosses a slice boundary and targets a
\* path inside a slice other than its barrel file yields
\* PUBLIC_API_VIOLATION when the layer rule did not match.
C3_AsStated ==
    /\ C3_Scenario
    /\ Evaluated =>
           \A e \in GraphEdges :
               (CrossesSlice(e) /\ DeepImport(e)
                   /\ FindingsFor(findings, e, "LAYER_VIOLATION") = {})
               => FindingsFor(findings, e, "PUBLIC_API_VIOLATION") # {}

\* C3 amended: the scenario holds, and an edge between modules of different
\* layers that targets a path inside a slice other than its barrel file
\* yields PUBLIC_API_VIOLATION when the layer rule did not match, while an
\* edge between two modules of the same layer never does.
C3_PublicApiAcrossLayers ==
    /\ C3_Scenario
    /\ Evaluated =>
           \A e \in GraphEdges :
               /\ (e.from.layer # e.to.layer /\ DeepImport(e)
                      /\ FindingsFor(findings, e, "LAYER_VIOLATION") = {})
                  => FindingsFor(findings, e, "PUBLIC_API_VIOLATION") # {}
               /\ e.from.layer = e.to.layer
                  => FindingsFor(findings, e, "PUBLIC_API_VIOLATION") = {}

C3_Witness ==
    /\ Reported
    /\ OnlyImport(HomePage, UserTypes)
    /\ Len(report.findings) = 1
    /\ report.findings[1].kind = "PUBLIC_API_VIOLATION"

\* C4: an edge whose target is a slice's barrel file never yields
\* PUBLIC_API_VIOLATION, whichever slices and layers its modules are in.
C4_BarrelExemption ==
    /\ Evaluated =>
           \A e \in GraphEdges :
               e.barrel => FindingsFor(findings, e, "PUBLIC_API_VIOLATION") = {}
    /\ Reported => \A i \in OfKind(report.findings, "PUBLIC_API_VIOLATION") :
                       ~IsBarrel(report.findings[i].target)

\* a page imported a slice of a lower layer through its barrel
C4_Witness ==
    /\ Reported
    /\ OnlyImport(HomePage, <<"entities", "user", "index.ts">>)
    /\ graph.edges[1].barrel
    /\ report.findings = <<>>

\* C5: an edge whose modules belong to the same (layer, slice) yields
\* neither PUBLIC_API_VIOLATION nor CROSS_SLICE_VIOLATION, whatever the
\* segments and whether or not the target is the barrel file.
C5_SameSliceExempt ==
    Evaluated =>
        \A e \in GraphEdges :
            (e.from.layer # None /\ e.from.layer = e.to.layer
                /\ e.from.slice = e.to.slice)
            => /\ FindingsFor(findings, e, "PUBLIC_API_VIOLATION") = {}
               /\ FindingsFor(findings, e, "CROSS_SLICE_VIOLATION") = {}

\* a module imported an internal file of another segment of its own slice
C5_Witness ==
    /\ Reported
    /\ OnlyImport(<<"entities", "user", "api", "user.api.ts">>, UserTypes)
    /\ graph.edges[1].from.segment # graph.edges[1].to.segment
    /\ OfKind(report.findings, "PUBLIC_API_VIOLATION") = {}
    /\ OfKind(report.findings, "CROSS_SLICE_VIOLATION") = {}

EditUserFiles ==
    {<<"features", "edit-user", "index.ts">>,
     <<"features", "edit-user", "api", "useUpdateUser.ts">>}

DeleteUser == <<"features", "delete-user", "index.ts">>

\* C6: the import of features/delete-user by features/edit-user yields
\* exactly one CROSS_SLICE_VIOLATION, of severity WARNING when strict mode
\* is off.
C6_CrossSliceWarning ==
    \A f \in EditUserFiles :
        (Reported /\ OnlyImport(f, DeleteUser)) =>
            /\ Cardinality(OfKind(report.findings, "CROSS_SLICE_VIOLATION")) = 1
            /\ \A i \in OfKind(report.findings, "CROSS_SLICE_VIOLATION") :
                   /\ report.findings[i].file = f
                   /\ report.findings[i].target = DeleteUser
                   /\ ~strict => report.findings[i].severity = "WARNING"

C6_Witness ==
    /\ Reported
    /\ ~strict
    /\ OnlyImport(<<"features", "edit-user", "api", "useUpdateUser.ts">>,
                  DeleteUser)
    /\ Len(report.findings) = 1
    /\ report.findings[1].kind = "CROSS_SLICE_VIOLATION"
    /\ report.findings[1].severity = "WARNING"

\* the slice-level edges of the tree, as a set: independent of the order
\* in which files and imports were read
TreeSliceEdges ==
    {<<SliceId(Module(x.file)), SliceId(Module(x.target))>> :
        x \in {y \in Range(tree) : /\ SliceOf(y.file) # None
                                   /\ SliceOf(y.target) # None
                                   /\ SliceId(Module(y.file))
                                          # SliceId(Module(y.target))
                                   /\ y.file \notin unreadable
                                   /\ y.target \notin unreadable}}

TreeSlices ==
    {p[1] : p \in TreeSliceEdges} \cup {p[2] : p \in TreeSliceEdges}

\* the slice-level edges are exactly a -> b, b -> c, c -> a
IsThreeCycle(a, b, c) ==
    /\ Len(tree) >= 3
    /\ a # b /\ b # c /\ a # c
    /\ a[1] = b[1] /\ b[1] = c[1]
    /\ TreeSliceEdges = {<<a, b>>, <<b, c>>, <<c, a>>}

Circular(fs) == OfKind(fs, "CIRCULAR_DEPENDENCY")

\* C7: for three slices of one layer whose only slice-level edges are
\* A -> B, B -> C, C -> A, exactly one CIRCULAR_DEPENDENCY finding is
\* reported and it names the three slices, in whatever order the files
\* were scanned.
C7_CycleCompleteness ==
    (Evaluated /\ Len(tree) >= 3) =>
    \A a, b, c \in TreeSlices :
        IsThreeCycle(a, b, c) =>
            /\ Cardinality(Circular(findings)) = 1
            /\ \A i \in Circular(findings) :
                   /\ Range(findings[i].cycle) = {a, b, c}
                   /\ Len(findings[i].cycle) = 3
            /\ Reported =>
                   /\ Cardinality(Circular(report.findings)) = 1
                   /\ \A i \in Circular(report.findings) :
                          Range(report.findings[i].cycle) = {a, b, c}

\* a three-slice cycle whose scan started at features/edit-user, the
\* largest of its slice identifiers, was reported
C7_Witness ==
    /\ Reported
    /\ IsThreeCycle(<<"features", "auth">>, <<"features", "delete-user">>,
                    <<"features", "edit-user">>)
    /\ graph.modules[1].slice = "edit-user"
    /\ Cardinality(Circular(report.findings)) = 1

\* the transitive closure of a relation
RECURSIVE Closure(_)
Closure(R) ==
    LET step == R \cup {<<x[1][1], x[2][2]>> :
                            x \in {y \in R \X R : y[1][2] = y[2][1]}}
    IN  IF step = R THEN R ELSE Closure(step)

\* the sets of slices that lie on a common cycle of the tree's slice graph
TreeCycles ==
    LET T == Closure(TreeSliceEdges)
    IN  {{n \in TreeSlices : n = m \/ (<<m, n>> \in T /\ <<n, m>> \in T)} :
            m \in {k \in TreeSlices : <<k, k>> \in T}}

\* C8: every reported cycle starts at its lexicographically smallest slice
\* identifier, and the cycles reported are those of the tree's slice graph,
\* each once, whatever the insertion order of modules and edges.
C8_CycleCanonical ==
    Reported =>
        LET fs == report.findings
        IN  /\ \A i \in Circular(fs) :
                   \A j \in 2..Len(fs[i].cycle) :
                       LexLess(SliceIdChars(fs[i].cycle[1]),
                               SliceIdChars(fs[i].cycle[j]))
            /\ {Range(fs[i].cycle) : i \in Circular(fs)} = TreeCycles
            /\ Cardinality(Circular(fs)) = Cardinality(TreeCycles)

\* a cycle that was discovered from a slice other than its smallest one
\* was reported
C8_Witness ==
    /\ Reported
    /\ \E i \in DOMAIN Tarjan(graph) :
           /\ Len(Tarjan(graph)[i]) = 3
           /\ MinPos(Tarjan(graph)[i]) # 1
    /\ Cardinality(Circular(report.findings)) = 1

AlwaysError == {"LAYER_VIOLATION", "CIRCULAR_DEPENDENCY", "SCAN_ERROR"}

\* C9 as stated: LAYER_VIOLATION, CIRCULAR_DEPENDENCY and SCAN_ERROR are
\* ERROR in both modes; PUBLIC_API_VIOLATION and CROSS_SLICE_VIOLATION are
\* WARNING when strict mode is off and ERROR when it is on.
C9_AsStated ==
    Reported =>
        \A i \in DOMAIN report.findings :
            LET f == report.findings[i]
            IN  /\ f.kind \in AlwaysError => f.severity = "ERROR"
                /\ f.kind \in {"PUBLIC_API_VIOLATION", "CROSS_SLICE_VIOLATION"}
                   => f.severity = IF strict THEN "ERROR" ELSE "WARNING"

\* C9 amended: LAYER_VIOLATION, PUBLIC_API_VIOLATION, CIRCULAR_DEPENDENCY
\* and SCAN_ERROR are ERROR in both modes; CROSS_SLICE_VIOLATION is WARNING
\* when strict mode is off and ERROR when it is on; in strict mode no
\* finding is a WARNING.
C9_SeverityTable ==
    Reported =>
        \A i \in DOMAIN report.findings :
            LET f == report.findings[i]
            IN  /\ f.kind \in AlwaysError \cup {"PUBLIC_API_VIOLATION"}
                   => f.severity = "ERROR"
                /\ f.kind = "CROSS_SLICE_VIOLATION"
                   => f.severity = IF strict THEN "ERROR" ELSE "WARNING"
                /\ strict => f.severity # "WARNING"

\* a strict run reported a cross-slice import and an unreadable file
C9_Witness ==
    /\ Reported
    /\ strict
    /\ OfKind(report.findings, "CROSS_SLICE_VIOLATION") # {}
    /\ OfKind(report.findings, "SCAN_ERROR") # {}

\* C10: the status is FAIL exactly when some finding has severity ERROR
\* under the active strictness mode, and PASS otherwise; a report whose only
\* finding is one CROSS_SLICE_VIOLATION is PASS when strict mode is off and
\* FAIL when it is on.
C10_StatusContract ==
    Reported =>
        /\ report.status \in {"PASS", "FAIL"}
        /\ report.status = "FAIL" <=>
               \E i \in DOMAIN report.findings :
                   Severity(report.findings[i].kind, strict) = "ERROR"
        /\ (Len(report.findings) = 1
               /\ report.findings[1].kind = "CROSS_SLICE_VIOLATION")
           => report.status = IF strict THEN "FAIL" ELSE "PASS"
        /\ \A f \in EditUserFiles :
               OnlyImport(f, DeleteUser) =>
                   report.status = IF strict THEN "FAIL" ELSE "PASS"

\* a run whose only finding is a cross-slice import passed with strict
\* mode off
C10_Witness ==
    /\ Reported
    /\ ~strict
    /\ Len(report.findings) = 1
    /\ report.findings[1].kind = "CROSS_SLICE_VIOLATION"
    /\ report.status = "PASS"

\* the run has ended, with a report or with an error
Ended == pc \in {"reported", "aborted"}

GroupOf(kind) ==
    CASE kind = "SCAN_ERROR" -> 1
      [] kind = "LAYER_VIOLATION" -> 2
      [] kind = "PUBLIC_API_VIOLATION" -> 3
      [] kind = "CROSS_SLICE_VIOLATION" -> 4
      [] kind = "CIRCULAR_DEPENDENCY" -> 5

\* what a finding says, without its severity
Told(f) ==
    [kind |-> f.kind, file |-> f.file, line |-> f.line, target |-> f.target,
     cycle |-> f.cycle]

Absent(s, bad) ==
    LET In(x) == x.file \notin bad
        left == SelectSeq(s, In)
    IN  [i \in DOMAIN left |->
            IF left[i].target \in bad
            THEN [file |-> left[i].file, target |-> <<"react">>]
            ELSE left[i]]

\* the findings of fs that are not scan errors, in their order
RECURSIVE Violations(_)
Violations(fs) ==
    IF fs = <<>> THEN <<>>
    ELSE IF Head(fs).kind = "SCAN_ERROR" THEN Violations(Tail(fs))
    ELSE <<Head(fs)>> \o Violations(Tail(fs))

\* C13: when a file cannot be read or parsed the run is not aborted, the
\* file is not in the module graph, exactly one SCAN_ERROR finding is
\* recorded for it, the other findings are those of the tree without that
\* file, and the status of the run is not PASS.
C13_ScanErrorRecovery ==
    unreadable # {} =>
        /\ pc # "aborted" /\ error = None
        /\ pc \in {"start", "loaded", "scanned", "evaluated", "reported"}
        /\ Evaluated =>
               /\ \A i \in DOMAIN graph.modules :
                      graph.modules[i].path \notin unreadable
               /\ \A e \in GraphEdges :
                      e.from.path \notin unreadable /\ e.to.path \notin unreadable
               /\ \A f \in unreadable :
                      Cardinality({i \in OfKind(findings, "SCAN_ERROR") :
                                      findings[i].file = f}) = 1
               /\ Cardinality(OfKind(findings, "SCAN_ERROR"))
                      = Cardinality(unreadable)
               /\ Violations(findings)
                      = EvaluateGraph(BuildGraph(Absent(tree, unreadable), {}))
        /\ Reported =>
               /\ report.status # "PASS"
               /\ Cardinality(OfKind(report.findings, "SCAN_ERROR"))
                      = Cardinality(unreadable)

\* an unreadable file that imports and is imported by readable files was
\* reported together with a violation of the other files
C13_Witness ==
    /\ Reported
    /\ \E f \in unreadable :
           /\ \E i \in DOMAIN tree : tree[i].file = f
           /\ \E i \in DOMAIN tree : tree[i].target = f
    /\ Cardinality(OfKind(report.findings, "SCAN_ERROR")) = 1
    /\ OfKind(report.findings, "CROSS_SLICE_VIOLATION") # {}
    /\ report.status = "FAIL"

\* the table lets some layer depend on itself or on a layer above it, or
\* names a layer that is not recognized
Malformed(p) ==
    \/ \E name \in DOMAIN p : name \notin Layers
    \/ \E layer \in Layers :
           \E x \in Range(p[layer]) :
               x \notin Layers \/ x = layer \/ Level(x) > Level(layer)

\* C14: a policy in which some allowedLayers(L) contains L itself or a layer
\* above L, or that names an unrecognized layer, raises ConfigurationError
\* when it is loaded, and the run ends with no graph, no findings and no
\* report; a run with a well-formed policy is never aborted and its report
\* is complete, whatever scan errors and violations occur.
C14_ConfigurationError ==
    /\ (Malformed(policy) /\ pc # "start") =>
           /\ pc = "aborted"
           /\ error = "ConfigurationError"
           /\ graph = EmptyGraph
           /\ findings = <<>>
           /\ report = NoReport
    /\ ~Malformed(policy) =>
           /\ pc # "aborted"
           /\ error = None
           /\ Reported =>
                  /\ report.status \in {"PASS", "FAIL"}
                  /\ report.summary.bySeverity["ERROR"]
                         + report.summary.bySeverity["WARNING"]
                         = Len(findings)
                  /\ Len(report.findings) = Len(findings)

\* a run over a tree with an import was aborted by a policy that names an
\* unrecognized layer
C14_Witness ==
    /\ pc = "aborted"
    /\ error = "ConfigurationError"
    /\ policy = UnknownLayerPolicy
    /\ tree # <<>>
    /\ report = NoReport

\* the source tree holds no file
EmptyTree == tree = <<>> /\ unreadable = {}

PerEdgeKinds ==
    {"LAYER_VIOLATION", "PUBLIC_API_VIOLATION", "CROSS_SLICE_VIOLATION"}

\* positions of the per-edge findings of fs that reference edge e
PerEdge(fs, e) ==
    {i \in DOMAIN fs : /\ fs[i].kind \in PerEdgeKinds
                       /\ fs[i].file = e.from.path
                       /\ fs[i].line = e.line
                       /\ fs[i].target = e.to.path}

\* the kind of the first per-edge rule that matches the edge
FirstMatch(e) ==
    IF LayerRule(e) THEN "LAYER_VIOLATION"
    ELSE IF PublicApiRule(e) THEN "PUBLIC_API_VIOLATION"
    ELSE "CROSS_SLICE_VIOLATION"

Matches(e) == LayerRule(e) \/ PublicApiRule(e) \/ CrossSliceRule(e)

\* C16: the evaluator does not stop at the first violation: every edge of
\* the graph that matches a per-edge rule has a finding, every edge has at
\* most one per-edge finding, of the kind of the first rule that matches in
\* the order layer, public-API, cross-slice, and every per-edge finding
\* references an edge of the graph.
C16_FullEnumeration ==
    Evaluated =>
        /\ \A e \in GraphEdges :
               /\ Matches(e) => PerEdge(findings, e) # {}
               /\ Cardinality(PerEdge(findings, e)) <= 1
               /\ \A i \in PerEdge(findings, e) :
                      Matches(e) /\ findings[i].kind = FirstMatch(e)
        /\ \A i \in DOMAIN findings :
               findings[i].kind \in PerEdgeKinds =>
                   \E e \in GraphEdges : i \in PerEdge(findings, e)
        /\ Reported =>
               \A e \in GraphEdges :
                   Cardinality(PerEdge(report.findings, e))
                       = IF Matches(e) THEN 1 ELSE 0

\* three violating imports were all reported, one of them matched by the
\* layer rule and by the public-API rule
C16_Witness ==
    /\ Reported
    /\ Len(graph.edges) = 3
    /\ \A e \in GraphEdges : Matches(e)
    /\ \E e \in GraphEdges : LayerRule(e) /\ PublicApiRule(e)
    /\ \E e \in GraphEdges : CrossSliceRule(e)
    /\ Cardinality({i \in DOMAIN report.findings :
                       report.findings[i].kind \in PerEdgeKinds}) = 3

\* the edges that join two different slices
SliceEdges ==
    {e \in GraphEdges : /\ e.from.slice # None
                        /\ e.to.slice # None
                        /\ SliceId(e.from) # SliceId(e.to)}

\* the import goes from a higher layer to a lower layer
Downward(e) == Level(e.to.layer) < Level(e.from.layer)

AuthValidation == <<"features", "auth", "lib", "validation.ts">>

\* the import of features/auth/lib/validation by features/edit-user is
\* reported as a cross-slice import, and as nothing else
C18_Example ==
    \A f \in EditUserFiles :
        (Reported /\ OnlyImport(f, AuthValidation)) =>
            /\ Len(report.findings) = 1
            /\ report.findings[1].kind = "CROSS_SLICE_VIOLATION"

\* the number of per-edge rules whose condition holds for the edge
RulesMatching(e) ==
    Cardinality({r \in {"layer", "api", "cross"} :
                    \/ r = "layer" /\ LayerRule(e)
                    \/ r = "api" /\ PublicApiRule(e)
                    \/ r = "cross" /\ CrossSliceRule(e)})

\* C18 as stated: for every edge at most one of the layer-rule,
\* public-API-rule and cross-slice-rule conditions holds.
C18_AsStated ==
    /\ C18_Example
    /\ Evaluated => \A e \in GraphEdges : RulesMatching(e) <= 1

\* C18 amended: the cross-slice rule never matches an edge that the layer
\* rule or the public-API rule matches; the layer rule and the public-API
\* rule can both match an edge, which is then reported as LAYER_VIOLATION
\* only, by the order of evaluation.
C18_RuleOverlap ==
    /\ C18_Example
    /\ Evaluated =>
           \A e \in GraphEdges :
               /\ ~(LayerRule(e) /\ CrossSliceRule(e))
               /\ ~(PublicApiRule(e) /\ CrossSliceRule(e))
               /\ (LayerRule(e) /\ PublicApiRule(e)) =>
                      /\ FindingsFor(findings, e, "LAYER_VIOLATION") # {}
                      /\ FindingsFor(findings, e, "PUBLIC_API_VIOLATION") = {}

\* an import of a file inside a slice of a higher layer matched the layer
\* rule and the public-API rule and was reported as a layer violation
C18_Witness ==
    /\ Reported
    /\ OnlyImport(<<"entities", "user", "index.ts">>, AuthValidation)
    /\ \A e \in GraphEdges : LayerRule(e) /\ PublicApiRule(e)
    /\ Len(report.findings) = 1
    /\ report.findings[1].kind = "LAYER_VIOLATION"

\* the edge joins two different slices of one layer
SiblingSlices(e) ==
    /\ e.from.layer # None
    /\ e.from.layer = e.to.layer
    /\ e.from.slice # None
    /\ e.to.slice # None
    /\ e.from.slice # e.to.slice

\* C19: no edge whose source and target modules are both in the shared
\* layer produces CROSS_SLICE_VIOLATION; in every other layer an edge
\* between two different slices of the layer that no earlier rule caught
\* produces CROSS_SLICE_VIOLATION.
C19_SharedExempt ==
    Evaluated =>
        \A e \in GraphEdges :
            /\ (e.from.layer = "shared" /\ e.to.layer = "shared")
               => FindingsFor(findings, e, "CROSS_SLICE_VIOLATION") = {}
            /\ (/\ SiblingSlices(e)
                /\ e.from.layer # "shared"
                /\ FindingsFor(findings, e, "LAYER_VIOLATION") = {}
                /\ FindingsFor(findings, e, "PUBLIC_API_VIOLATION") = {})
               => FindingsFor(findings, e, "CROSS_SLICE_VIOLATION") # {}

\* a file of shared/api imported a file of shared/lib and nothing was
\* reported
C19_Witness ==
    /\ Reported
    /\ OnlyImport(<<"shared", "api", "index.ts">>,
                  <<"shared", "lib", "validation.ts">>)
    /\ \A e \in GraphEdges : SiblingSlices(e)
    /\ report.findings = <<>>
    /\ report.status = "PASS"

\* positions of the statements of the tree that import a package or are
\* computed
Unresolved ==
    {i \in DOMAIN tree :
        tree[i].target \in PackageSpecifiers \cup DynamicSpecifiers}

\* the findings of fs that are about the i-th statement of the tree
About(fs, i) ==
    {k \in DOMAIN fs : \/ /\ fs[k].file = tree[i].file
                          /\ fs[k].line = LineOf(tree, i)
                       \/ fs[k].target = tree[i].target}

\* C20: no LAYER_VIOLATION finding references an edge whose source or
\* target module has no layer, and an import of a package or a computed
\* import adds no module and no edge to the graph and produces no finding
\* of any kind.
C20_OutsideTheScopedGraph ==
    Evaluated =>
        /\ \A e \in GraphEdges :
               (e.from.layer = None \/ e.to.layer = None)
               => FindingsFor(findings, e, "LAYER_VIOLATION") = {}
        /\ \A k \in OfKind(findings, "LAYER_VIOLATION") :
               /\ findings[k].file[1] \in Layers
               /\ findings[k].target[1] \in Layers
        /\ \A i \in Unresolved :
               /\ About(findings, i) = {}
               /\ \A m \in DOMAIN graph.modules :
                      graph.modules[m].path # tree[i].target
               /\ \A e \in GraphEdges : e.to.path # tree[i].target
               /\ Reported => About(report.findings, i) = {}

\* a file of the shared layer imported the package entities and nothing
\* was reported
C20_Witness ==
    /\ Reported
    /\ tree = <<[file |-> <<"shared", "api", "index.ts">>,
                 target |-> <<"entities">>]>>
    /\ graph = EmptyGraph
    /\ report.findings = <<>>
    /\ report.status = "PASS"

LegacyIndex == <<"features", "legacy", "index.ts">>

HeaderIndex == <<"widgets", "header", "index.ts">>

\* the edge is an import of the widgets layer by a module of features
FeatureImportsWidget(e) == e.from.layer = "features" /\ e.to.layer = "widgets"

\* C22: with the exception features/legacy canImport widgets the policy
\* loads without error, an import from a module of features/legacy into
\* widgets produces no LAYER_VIOLATION, and the same import from any other
\* slice of features produces LAYER_VIOLATION.
C22_PerSliceExceptions ==
    exceptions = LegacyException =>
        /\ pc # "aborted"
        /\ error = None
        /\ Evaluated =>
               \A e \in GraphEdges :
                   FeatureImportsWidget(e) =>
                       IF e.from.slice = "legacy"
                       THEN FindingsFor(findings, e, "LAYER_VIOLATION") = {}
                       ELSE FindingsFor(findings, e, "LAYER_VIOLATION") # {}
        /\ Reported =>
               \A i \in OfKind(report.findings, "LAYER_VIOLATION") :
                   ~(/\ report.findings[i].file[1] = "features"
                     /\ report.findings[i].file[2] = "legacy"
                     /\ report.findings[i].target[1] = "widgets")

\* with the exception configured, features/legacy imported widgets/header
\* and nothing was reported
C22_Witness ==
    /\ Reported
    /\ exceptions = LegacyException
    /\ tree = <<[file |-> LegacyIndex, target |-> HeaderIndex]>>
    /\ report.findings = <<>>
    /\ report.status = "PASS"

SequentialGraph == BuildGraph(tree, unreadable)

SequentialReport ==
    BuildReport(ScanErrors(unreadable) \o EvaluateGraph(SequentialGraph),
                strict)

Merged == pc \in {"scanned", "evaluated", "reported"}

\* the two graphs have the same modules and the same edges
SameGraph(g, h) ==
    /\ Range(g.modules) = Range(h.modules)
    /\ Range(g.edges) = Range(h.edges)

\* no worker writes to the shared graph, and the merge starts only after
\* every parse has completed
C23_Phases ==
    /\ pc = "loaded" => graph = EmptyGraph /\ findings = <<>>
    /\ Merged => Range(parsed) = FilesOf(tree) /\ Len(parsed) = Cardinality(FilesOf(tree))

Steps(m, kind, from, to) ==
    /\ mutations[m].kind = kind
    /\ mutations[m].pc = from
    /\ mutations'[m].pc = to

\* every cached query that the key selects is invalidated
Invalidated(cache, queryKey) ==
    \A k \in Matching(cache, queryKey) : cache[k].invalidated

RolledBack(m) == mutations[m].failed /\ mutations[m].pc \in {"settling", "done"}

\* C24: onMutate of useUpdate snapshots the cached detail(id) value before
\* it writes the optimistic value; when the mutation fails and a snapshot
\* existed, onError sets the cached detail(id) back to exactly the snapshot;
\* after a success as after a failure onSettled invalidates detail(id) and
\* lists().
C24_UpdateRollback ==
    [][\A m \in Mutations :
          LET id == mutations[m].id
              old == getQueryData(queries, detail(id))
          IN  /\ Steps(m, "update", "onMutate", "pending") =>
                    /\ mutations'[m].previous = old
                    /\ old # Undefined =>
                          getQueryData(queries', detail(id))
                              = Spread(old, mutations[m].data)
                    /\ old = Undefined => queries' = queries
              /\ Steps(m, "update", "failed", "settling") =>
                    /\ mutations[m].previous # Undefined =>
                          getQueryData(queries', detail(id))
                              = mutations[m].previous
                    /\ mutations[m].previous = Undefined => queries' = queries
              /\ Steps(m, "update", "settling", "done") =>
                    /\ Invalidated(queries', detail(id))
                    /\ Invalidated(queries', lists)
                    /\ DataOf(queries') = DataOf(queries)
              /\ (mutations[m].kind = "update" /\ mutations'[m].pc = "done")
                    => mutations[m].pc \in {"settling", "done"}
      ]_vars

\* an update failed, its snapshot is back in the cache, and the detail and
\* the lists are invalidated
C24_Witness ==
    \E m \in Mutations :
        /\ mutations[m].kind = "update"
        /\ mutations[m].pc = "done"
        /\ mutations[m].failed
        /\ mutations[m].previous = Entity("1")
        /\ \A n \in Mutations : n # m => mutations[n].pc = "idle"
        /\ getQueryData(queries, detail("1")) = Entity("1")
        /\ queries[detail("1")].invalidated
        /\ Matching(queries, lists) # {}
        /\ Invalidated(queries, lists)
        /\ ~queries[detail("2")].invalidated

\* no other mutation has taken its snapshot, so none has written the cache
Alone(m) == \A n \in Mutations : n # m => mutations[n].order = 0

\* C25: onMutate of useDelete removes the detail(id) entry and removes the
\* item with that id from every cached list; when the deletion fails,
\* onError restores detail(id) and every cached list to the values
\* snapshotted in onMutate, so that the data of the cache is what it was
\* before the mutation; onSettled then invalidates every key under the
\* base key.
C25_DeleteRollback ==
    [][\A m \in Mutations :
          LET id == mutations[m].id
          IN  /\ Steps(m, "delete", "onMutate", "pending") =>
                    /\ mutations'[m].previous = getQueryData(queries, detail(id))
                    /\ mutations'[m].previousLists
                          = getQueriesData(queries, lists)
                    /\ detail(id) \notin DOMAIN queries'
                    /\ DOMAIN queries' = DOMAIN queries \ {detail(id)}
                    /\ \A k \in DOMAIN queries' :
                          IF k \in ListKeys
                          THEN queries'[k].data = Without(queries[k].data, id)
                          ELSE queries'[k] = queries[k]
              /\ Steps(m, "delete", "failed", "settling") =>
                    /\ mutations[m].previous # Undefined =>
                          getQueryData(queries', detail(id))
                              = mutations[m].previous
                    /\ \A k \in DOMAIN mutations[m].previousLists :
                          getQueryData(queries', k)
                              = mutations[m].previousLists[k]
                    /\ Alone(m) => DataOf(queries') = mutations[m].before
              /\ Steps(m, "delete", "settling", "done") =>
                    /\ Invalidated(queries', all)
                    /\ \A k \in DOMAIN queries' : queries'[k].invalidated
                    /\ DataOf(queries') = DataOf(queries)
      ]_vars

\* a deletion failed after it had removed the entity from the detail and
\* from two lists, and the cache is as it was fetched, invalidated
C25_Witness ==
    \E m \in Mutations :
        /\ mutations[m].kind = "delete"
        /\ mutations[m].pc = "done"
        /\ mutations[m].failed
        /\ Alone(m)
        /\ mutations[m].previous = Entity("1")
        /\ Cardinality(DOMAIN mutations[m].previousLists) = 3
        /\ DataOf(queries) = DataOf(FetchedCache(DetailKeys \cup ListKeys))
        /\ \A k \in DOMAIN queries : queries[k].invalidated

\* the update mutations on the entity id
UpdatesOf(id) ==
    {m \in Mutations : mutations[m].kind = "update" /\ mutations[m].id = id}

\* two or more mutations were started, all of them updates of the entity
\* id, all failed and every one has run its onError
AllRolledBack(id) ==
    /\ Cardinality(UpdatesOf(id)) >= 2
    /\ \A m \in Mutations :
          mutations[m].pc # "idle" => m \in UpdatesOf(id) /\ RolledBack(m)

\* C26 as stated: for any interleaving of two or more useUpdate mutations
\* on the same id that all fail, once every mutation has run its onError
\* the cached detail(id) value is the value that was cached before the
\* first onMutate ran.
C26_AsStated ==
    \A id \in Ids :
        AllRolledBack(id) =>
            \A m \in UpdatesOf(id) :
                mutations[m].order = 1 =>
                    getQueryData(queries, detail(id)) = mutations[m].previous

\* for every id and every filters value the base key is a prefix of
\* lists(), list(filters), details() and detail(id), lists() of
\* list(filters), details() of detail(id), and neither is lists() a prefix
\* of a detail key nor details() of a list key
Hierarchy ==
    \A id \in Ids, f \in FilterChoices :
        /\ IsPrefix(all, lists) /\ IsPrefix(all, list(f))
        /\ IsPrefix(all, details) /\ IsPrefix(all, detail(id))
        /\ IsPrefix(lists, list(f))
        /\ IsPrefix(details, detail(id))
        /\ ~IsPrefix(lists, detail(id)) /\ ~IsPrefix(lists, details)
        /\ ~IsPrefix(details, list(f)) /\ ~IsPrefix(details, lists)

\* the cached queries that a step has marked invalidated
NewlyInvalidated ==
    {k \in DOMAIN queries : queries'[k].invalidated /\ ~queries[k].invalidated}

\* C29: the keys of the factory are hierarchical (see Hierarchy), so that
\* invalidating lists() matches every cached list query and no detail
\* query, and invalidating detail(id) matches no detail(id') with id'
\* different from id.
C29_HierarchicalKeys ==
    [][/\ Hierarchy
       /\ Matching(queries, all) = DOMAIN queries
       /\ Matching(queries, lists) = DOMAIN queries \cap ListKeys
       /\ Matching(queries, details) = DOMAIN queries \cap DetailKeys
       /\ \A id \in Ids :
             Matching(queries, detail(id)) = DOMAIN queries \cap {detail(id)}
       /\ queries' = invalidateQueries(queries, lists) =>
             /\ Invalidated(queries', lists)
             /\ NewlyInvalidated \cap DetailKeys = {}
       /\ \A id \in Ids :
             queries' = invalidateQueries(queries, detail(id)) =>
                NewlyInvalidated \subseteq {detail(id)}
       /\ \A id \in Ids, other \in Ids :
             other # id => detail(other) \notin Matching(queries', detail(id))
      ]_vars

\* both entities and two lists are cached; the lists and the first entity
\* have been invalidated, the second entity has not
C29_Witness ==
    /\ DetailKeys \cup ListKeys \subseteq DOMAIN queries
    /\ Invalidated(queries, lists)
    /\ queries[detail("1")].invalidated
    /\ ~queries[detail("2")].invalidated

(***************************************************************************)
(* Properties of the API client and of the rate limited client.            *)
(***************************************************************************)
\* C27: for every response that is not ok the afterResponse hook throws an
\* ApiError with the status of the response and with the message of the
\* JSON body, else the status text, else 'An error occurred', so that no
\* method returns a value for such a response; for status 401 the token
\* has been removed from the storage before the error is thrown.
C27_ErrorHandling ==
    LET response == call.response
        message ==
            IF response.body.json /\ response.body.message # ""
            THEN response.body.message
            ELSE IF response.statusText # "" THEN response.statusText
            ELSE "An error occurred"
    IN  /\ call.pc \in {"passed", "returned"} => response.ok
        /\ call.pc = "handleError" => ~response.ok
        /\ (call.pc = "rejected" /\ ~response.ok) =>
              /\ call.error.name = "ApiError"
              /\ call.error.status = response.status
              /\ call.error.message = message
              /\ response.status = 401 =>
                    /\ call.cleared
                    /\ lastAuth.event # "set" => storage = NoItem
        /\ (call.pc = "rejected" /\ response.ok) => call.error = SyntaxError

\* a request that carried a token was answered 401 with a message in its
\* body: the call rejected with that message, the token is gone and the
\* window is on the login page
C27_Witness ==
    /\ call.pc = "rejected"
    /\ call.method = "delete"
    /\ call.authorization = Bearer("t1")
    /\ call.response = Response(401, "Error", Json("Invalid input"))
    /\ call.error = ApiError("Invalid input", 401)
    /\ storage = NoItem
    /\ lastAuth.event = "401"
    /\ location = "/login"

\* the beforeRequest hook runs on the request under way
Sends == call.pc = "created" /\ call'.pc = "sent"

\* C28 as stated: a request carries Authorization: Bearer t exactly when
\* the most recent of setAuthToken, clearAuthToken and a 401 response was
\* setAuthToken(t), and no Authorization header otherwise.
C28_AsStated ==
    [][Sends =>
          /\ \A t \in Tokens :
                call'.authorization = Bearer(t)
                    <=> lastAuth = AuthEvent("set", t)
          /\ lastAuth.event # "set" => call'.authorization = NoHeader
      ]_vars

\* C28 amended: a request carries Authorization: Bearer t exactly when the
\* most recent of setAuthToken, clearAuthToken and a 401 response was
\* setAuthToken(t) with a non-empty t; otherwise the hook adds nothing,
\* and the request has the Authorization header its caller configured,
\* which is none unless the caller configured one.
C28_TokenInjection ==
    [][/\ Sends =>
            /\ \A t \in Tokens :
                  call'.authorization = Bearer(t)
                      <=> (lastAuth = AuthEvent("set", t) /\ t # "")
            /\ ~(lastAuth.event = "set" /\ lastAuth.token # "") =>
                  call'.authorization = call.authorization
       /\ Truthy(storage) <=> (lastAuth.event = "set" /\ lastAuth.token # "")
       /\ call.pc = "created" => call.authorization \in CallerHeaders
      ]_vars

\* after a 401 response had removed the token, setAuthToken was called
\* again and the next request carries the new token
C28_Witness ==
    /\ call.pc = "sent"
    /\ call.authorization = Bearer("t2")
    /\ lastAuth = AuthEvent("set", "t2")
    /\ location = "/login"

\* the sequence p is the beginning of the sequence s
StartsWith(s, p) == Len(p) <= Len(s) /\ SubSeq(s, 1, Len(p)) = p

\* C30: for any interleaving of enqueueRequest with the running
\* processQueue loop at most one loop is active and at most one request is
\* executing, the requests start in the order they were enqueued, and
\* isProcessing is false only when the queue is empty and no request is
\* executing.
C30_RequestQueue ==
    /\ Cardinality(loops) <= 1
    /\ Cardinality(Executing) <= 1
    /\ StartsWith(enqueued, started)
    /\ enqueued = started \o queue
    /\ ~isProcessing => queue = <<>> /\ Executing = {} /\ loops = {}
    /\ \A r \in DOMAIN outcome :
          outcome[r] # "pending" => r \in Range(started) \ Executing

\* requests were enqueued while the loop was running: the second pauses,
\* the third waits in the queue
C30_Witness ==
    /\ enqueued = <<1, 2, 3>>
    /\ started = <<1, 2>>
    /\ queue = <<3>>
    /\ loops = {Loop("delay", 2)}
    /\ isProcessing
    /\ outcome = <<"rejected", "resolved", "pending">>

====
